---------------------------- MODULE Spec2Model ----------------------------
(***************************************************************************)
(* The quadropong server: world model (Game, Player, Ball), the tick       *)
(* engine, the datagram input handler and the control-plane handlers.      *)
(*                                                                         *)
(* Lengths are fixed-point numbers in units of 0.005 court units (so the   *)
(* court is 2000 wide), which makes every length constant of the source    *)
(* an integer.  Instants are milliseconds.  Option::None is modelled by a  *)
(* sentinel of the field's own type (NoTime, NoId, NoPos, NoAddr).         *)
(* Fields the server writes once and never reads (Game::id, created_at,    *)
(* Player::joined_at, Ball::radius as a field) are not part of the state.  *)
(***************************************************************************)
EXTENDS Integers, Sequences, FiniteSets, TLC

VARIABLES
    lobbies,   \* GameRooms::lobbies: game id -> Game
    now,       \* the wall clock read by chrono::Utc::now()
    nextId,    \* number of player ids (Uuid::new_v4) handed out so far
    last,      \* the last operation performed and what it answered
    server,    \* the tasks of bin/server.rs: the input queue, the position
               \* of the tick task, what the receiver and the broadcast hold
    client     \* one client: the server it addresses, the game it shows

vars == <<lobbies, now, nextId, last, server, client>>

(***************************************************************************)
(* Program constants                                                       *)
(***************************************************************************)
GAME_SIZE == 2000            \* 10.0
MAX_PLAYERS == 4
PING_TIMEOUT == 2000         \* ms
MAX_SCORE == 10
GOAL_TIMEOUT == 750          \* ms
GAME_DELETE_TIMEOUT == 60000 \* ms
BALL_SPEED == 30             \* 0.15
PADDLE_PADDING == 50         \* 0.25
SAFE_DISTANCE == 75          \* PADDLE_PADDING * SAFE_ZONE_MARGIN = 0.25 * 1.5
BALL_RADIUS == 25            \* 0.125
INITIAL_SPEED == 25          \* 0.125
CENTER == 1000               \* 5.0
PADDLE_DELTA == 60           \* 0.3
AI_DELTA == 12               \* 0.3 * 0.2
PADDLE_WIDTH == 200          \* 1.0
MAX_REC_STEP == 2

NoTime == -1
NoId == 0
NoPos == "None"
NoAddr == "none"
NoTarget == -100000

ALL_POSITIONS == <<"Top", "Bottom", "Right", "Left">>
Positions == {"Top", "Bottom", "Right", "Left"}
Directions == {"Positive", "Negative"}

Abs(x) == IF x < 0 THEN -x ELSE x
Clamp(x, lo, hi) == IF x < lo THEN lo ELSE IF x > hi THEN hi ELSE x
Range(f) == {f[x] : x \in DOMAIN f}

(***************************************************************************)
(* Ball                                                                    *)
(***************************************************************************)
BallNew ==
    [x |-> CENTER, y |-> CENTER, vx |-> 0, vy |-> INITIAL_SPEED,
     last_touched_by |-> NoId]

\* The velocity Ball::reset gives for the side it drew.
ResetVelocity(pos) ==
    CASE pos = "Top"    -> [vx |-> 0, vy |-> INITIAL_SPEED]
      [] pos = "Bottom" -> [vx |-> 0, vy |-> -INITIAL_SPEED]
      [] pos = "Left"   -> [vx |-> INITIAL_SPEED, vy |-> 0]
      [] pos = "Right"  -> [vx |-> -INITIAL_SPEED, vy |-> 0]
      [] OTHER          -> [vx |-> 0, vy |-> INITIAL_SPEED]

\* Ball::reset that keeps last_touched_by.
BallReset_keeps_toucher(ball, player_positions) ==
    LET draws == IF player_positions = {} THEN {NoPos} ELSE player_positions
    IN  {[x |-> CENTER, y |-> CENTER,
          vx |-> ResetVelocity(pos).vx, vy |-> ResetVelocity(pos).vy,
          last_touched_by |-> ball.last_touched_by] : pos \in draws}

\* Ball::reset: the side is drawn at random from player_positions, so the
\* result is the set of balls the draw can produce.
BallReset(ball, player_positions) ==
    LET draws == IF player_positions = {} THEN {NoPos} ELSE player_positions
    IN  {[x |-> CENTER, y |-> CENTER,
          vx |-> ResetVelocity(pos).vx, vy |-> ResetVelocity(pos).vy,
          last_touched_by |-> NoId] : pos \in draws}

update_position(ball) ==
    [ball EXCEPT !.x = @ + ball.vx, !.y = @ + ball.vy]

is_goal(ball) ==
    IF ball.x - BALL_RADIUS < 0 THEN "Left"
    ELSE IF ball.x + BALL_RADIUS > GAME_SIZE THEN "Right"
    ELSE IF ball.y - BALL_RADIUS < 0 THEN "Top"
    ELSE IF ball.y + BALL_RADIUS > GAME_SIZE THEN "Bottom"
    ELSE NoPos

\* calculate_wall_reflection that inverts the velocity and leaves the ball
\* where it is.
calculate_wall_reflection_no_clamp(ball, pos) ==
    CASE pos = "Top" ->
            IF ball.y - BALL_RADIUS < 0 THEN [ball EXCEPT !.vy = -ball.vy] ELSE ball
      [] pos = "Bottom" ->
            IF ball.y + BALL_RADIUS > GAME_SIZE THEN [ball EXCEPT !.vy = -ball.vy] ELSE ball
      [] pos = "Left" ->
            IF ball.x - BALL_RADIUS < 0 THEN [ball EXCEPT !.vx = -ball.vx] ELSE ball
      [] pos = "Right" ->
            IF ball.x + BALL_RADIUS > GAME_SIZE THEN [ball EXCEPT !.vx = -ball.vx] ELSE ball

calculate_wall_reflection(ball, pos) ==
    CASE pos = "Top" ->
            IF ball.y - BALL_RADIUS < 0
            THEN [ball EXCEPT !.y = 0 + BALL_RADIUS, !.vy = -ball.vy]
            ELSE ball
      [] pos = "Bottom" ->
            IF ball.y + BALL_RADIUS > GAME_SIZE
            THEN [ball EXCEPT !.y = GAME_SIZE - BALL_RADIUS, !.vy = -ball.vy]
            ELSE ball
      [] pos = "Left" ->
            IF ball.x - BALL_RADIUS < 0
            THEN [ball EXCEPT !.x = 0 + BALL_RADIUS, !.vx = -ball.vx]
            ELSE ball
      [] pos = "Right" ->
            IF ball.x + BALL_RADIUS > GAME_SIZE
            THEN [ball EXCEPT !.x = GAME_SIZE - BALL_RADIUS, !.vx = -ball.vx]
            ELSE ball

(***************************************************************************)
(* Player                                                                  *)
(***************************************************************************)
PlayerNew(name, is_ai) ==
    [name |-> name, ping_timestamp |-> NoTime, score |-> 0, addr |-> NoAddr,
     position |-> NoPos, paddle_position |-> CENTER,
     is_ready |-> is_ai, is_ai |-> is_ai]

\* increment_score that wraps around at MAX_SCORE.
increment_score_wrapping(player) == [player EXCEPT !.score = (@ + 1) % MAX_SCORE]

increment_score(player) == [player EXCEPT !.score = @ + 1]


\* move_paddle without the clamp.
move_paddle_unclamped(player, direction) ==
    LET step  == IF player.is_ai THEN AI_DELTA ELSE PADDLE_DELTA
        delta == IF direction = "Positive" THEN step ELSE -step
    IN  [player EXCEPT !.paddle_position = @ + delta]

move_paddle(player, direction) ==
    LET step  == IF player.is_ai THEN AI_DELTA ELSE PADDLE_DELTA
        delta == IF direction = "Positive" THEN step ELSE -step
    IN  [player EXCEPT !.paddle_position =
            Clamp(@ + delta, 0 + PADDLE_WIDTH \div 2,
                  GAME_SIZE - PADDLE_WIDTH \div 2)]

\* Player::move_towards.  Within half a paddle width of the target the
\* target is jittered by a random offset in (-w/2, w/2) and clamped to
\* paddle_position +- w/2, which can fall on either side of the paddle:
\* both directions are possible.  Otherwise the direction is decided by
\* the comparison.
MoveDirections(player, position) ==
    IF Abs(position - player.paddle_position) < PADDLE_WIDTH \div 2
    THEN Directions
    ELSE IF player.paddle_position > position THEN {"Negative"}
         ELSE {"Positive"}

move_towards(player, position) ==
    {move_paddle(player, d) : d \in MoveDirections(player, position)}

\* Player::calculate_ball_position for the Bottom side, the only side that
\* follows the ball through a reflection off a side wall.  A zero velocity
\* component makes the f32 quotient infinite or NaN; every comparison with
\* it is false and the recursion ends in None.
RECURSIVE BottomIntersection(_, _, _, _, _)
BottomIntersection(bx, by, vx, vy, rec_step) ==
    IF rec_step > MAX_REC_STEP THEN NoTarget
    ELSE IF vy < 0 THEN NoTarget
    ELSE IF vy = 0 THEN NoTarget
    ELSE LET x == bx + (vx * (GAME_SIZE - by)) \div vy
         IN  IF GAME_SIZE - by >= 0 /\ x >= 0 /\ x <= GAME_SIZE THEN x
             ELSE IF vx = 0 THEN NoTarget
             ELSE LET wall == IF vx < 0 THEN BALL_RADIUS
                              ELSE GAME_SIZE - BALL_RADIUS
                      ny   == by + ((wall - bx) * vy) \div vx
                  IN  BottomIntersection(wall, ny, -vx, vy, rec_step + 1)

calculate_ball_position(player, ball, rec_step) ==
    IF rec_step > MAX_REC_STEP THEN NoTarget
    ELSE CASE player.position = "Top" ->
                IF ball.vy >= 0 THEN NoTarget
                ELSE LET x == ball.x + (ball.vx * (0 - ball.y)) \div ball.vy
                     IN  IF ball.y >= 0 /\ x >= 0 /\ x <= GAME_SIZE
                         THEN x ELSE NoTarget
           [] player.position = "Bottom" ->
                BottomIntersection(ball.x, ball.y, ball.vx, ball.vy, rec_step)
           [] player.position = "Left" ->
                IF ball.vx >= 0 THEN NoTarget
                ELSE LET y == ball.y + (ball.vy * (0 - ball.x)) \div ball.vx
                     IN  IF ball.x >= 0 /\ y >= 0 /\ y <= GAME_SIZE
                         THEN y ELSE NoTarget
           [] player.position = "Right" ->
                IF ball.vx <= 0 THEN NoTarget
                ELSE LET y == ball.y + (ball.vy * (GAME_SIZE - ball.x)) \div ball.vx
                     IN  IF GAME_SIZE - ball.x >= 0 /\ y >= 0 /\ y <= GAME_SIZE
                         THEN y ELSE NoTarget
           [] OTHER -> NoTarget

\* Player::ai: the players one AI step can produce.
ai(player, ball) ==
    LET side_intersection == calculate_ball_position(player, ball, 1)
    IN  IF side_intersection # NoTarget
        THEN move_towards(player, side_intersection)
        ELSE move_towards(player, CENTER)


(***************************************************************************)
(* Game                                                                    *)
(***************************************************************************)
GameNew ==
    [players |-> <<>>, state |-> "WaitingForPlayers", started_at |-> NoTime,
     ball |-> BallNew, last_goal_at |-> NoTime, finished_at |-> NoTime]

Insert(m, k, v) == [x \in DOMAIN m \cup {k} |-> IF x = k THEN v ELSE m[x]]
Remove(m, k) == [x \in DOMAIN m \ {k} |-> m[x]]

is_full(game) == Cardinality(DOMAIN game.players) >= MAX_PLAYERS


\* add_player without the capacity check.
add_player_unchecked(game, id, player) ==
    [err |-> "Ok", game |-> [game EXCEPT !.players = Insert(@, id, player)]]

\* Game::add_player: the Result and the game afterwards.
add_player(game, id, player) ==
    IF is_full(game)
    THEN [err |-> "GameFull", game |-> game]
    ELSE [err |-> "Ok", game |-> [game EXCEPT !.players = Insert(@, id, player)]]


\* assign_position that looks for a free side in the order Top, Bottom,
\* Left, Right.
assign_position_left_first(game) ==
    LET order == <<"Top", "Bottom", "Left", "Right">>
        existing_positions ==
            {game.players[p].position : p \in DOMAIN game.players} \ {NoPos}
        free == {i \in DOMAIN order : order[i] \notin existing_positions}
    IN  IF free = {} THEN NoPos
        ELSE order[CHOOSE i \in free : \A j \in free : i <= j]

\* assign_position that ignores the positions already held.
assign_position_first(game) == ALL_POSITIONS[1]

assign_position(game) ==
    LET existing_positions ==
            {game.players[p].position : p \in DOMAIN game.players} \ {NoPos}
        free == {i \in DOMAIN ALL_POSITIONS : ALL_POSITIONS[i] \notin existing_positions}
    IN  IF free = {} THEN NoPos
        ELSE ALL_POSITIONS[CHOOSE i \in free : \A j \in free : i <= j]

set_game_state(game, state, t) ==
    [game EXCEPT !.finished_at = IF state = "Finished" THEN t ELSE @,
                 !.state = state]

Humans(game) == {p \in DOMAIN game.players : ~game.players[p].is_ai}


\* remove_player that takes the player out and leaves the state alone.
remove_player_keeps_state(game, id, t) == [game EXCEPT !.players = Remove(@, id)]

\* remove_player counting every player, not only the non-AI ones.
remove_player_counts_bots(game, id, t) ==
    LET rest == [game EXCEPT !.players = Remove(@, id)]
    IN  IF Cardinality(DOMAIN rest.players) < 2
        THEN set_game_state(rest, "Finished", t)
        ELSE rest

remove_player(game, id, t) ==
    LET removed == [game EXCEPT !.players = Remove(@, id)]
    IN  IF Cardinality(Humans(removed)) < 2
        THEN set_game_state(removed, "Finished", t)
        ELSE removed


\* start_game that starts a game in any state.
start_game_any_state(game, t) ==
    IF Cardinality(DOMAIN game.players) < 2
    THEN [err |-> "InvalidStateTransition", game |-> game]
    ELSE IF \E p \in DOMAIN game.players : ~game.players[p].is_ready
    THEN [err |-> "PlayersNotReady", game |-> game]
    ELSE [err |-> "Ok",
          game |-> [game EXCEPT !.started_at = t, !.state = "Active"]]

\* start_game that refuses every game.
start_game_refuses(game, t) == [err |-> "InvalidStateTransition", game |-> game]

\* start_game without the readiness check.
start_game_unready(game, t) ==
    IF game.state # "WaitingForPlayers"
    THEN [err |-> "InvalidStateTransition", game |-> game]
    ELSE IF game.started_at # NoTime
    THEN [err |-> "InvalidStateTransition", game |-> game]
    ELSE IF Cardinality(DOMAIN game.players) < 2
    THEN [err |-> "InvalidStateTransition", game |-> game]
    ELSE [err |-> "Ok",
          game |-> [game EXCEPT !.started_at = t, !.state = "Active"]]

\* Game::start_game: the Result and the game afterwards.
start_game(game, t) ==
    IF game.state # "WaitingForPlayers"
    THEN [err |-> "InvalidStateTransition", game |-> game]
    ELSE IF game.started_at # NoTime
    THEN [err |-> "InvalidStateTransition", game |-> game]
    ELSE IF Cardinality(DOMAIN game.players) < 2
    THEN [err |-> "InvalidStateTransition", game |-> game]
    ELSE IF \E p \in DOMAIN game.players : ~game.players[p].is_ready
    THEN [err |-> "PlayersNotReady", game |-> game]
    ELSE [err |-> "Ok",
          game |-> [game EXCEPT !.started_at = t, !.state = "Active"]]

pause_game(game) ==
    IF game.state # "Active"
    THEN [err |-> "InvalidStateTransition", game |-> game]
    ELSE [err |-> "Ok", game |-> [game EXCEPT !.state = "Paused"]]


\* The scoring test of goal_action without the comparison of positions.
Scores_on_own_side(game, last_touched, goal_pos) ==
    /\ last_touched # NoId
    /\ last_touched \in DOMAIN game.players

\* Whether the goal on goal_pos is credited to the player who touched last.
Scores(game, last_touched, goal_pos) ==
    /\ last_touched # NoId
    /\ last_touched \in DOMAIN game.players
    /\ game.players[last_touched].position # goal_pos

\* Game::goal_action: the games the random ball reset can produce.
goal_action(game, goal_pos, t) ==
    IF game.state # "Active" THEN {game}
    ELSE LET last_touched == game.ball.last_touched_by
             player_positions ==
                 {IF game.players[p].position = NoPos THEN "Top"
                  ELSE game.players[p].position : p \in DOMAIN game.players}
         IN  {[game EXCEPT
                 !.last_goal_at = t,
                 !.ball = b,
                 !.players = IF Scores(game, last_touched, goal_pos)
                             THEN [@ EXCEPT ![last_touched] = increment_score(@)]
                             ELSE @]
              : b \in BallReset(game.ball, player_positions)}

\* The players to remove when an unset ping_timestamp counts as the oldest.
TimedOut_unset_is_old(game, t) ==
    {p \in DOMAIN game.players : t - game.players[p].ping_timestamp > PING_TIMEOUT}

TimedOut(game, t) ==
    {p \in DOMAIN game.players :
        /\ game.players[p].ping_timestamp # NoTime
        /\ t - game.players[p].ping_timestamp > PING_TIMEOUT}

RECURSIVE RemoveAll(_, _, _)
RemoveAll(game, ids, t) ==
    IF ids = {} THEN game
    ELSE LET id == CHOOSE p \in ids : \A q \in ids : p <= q
         IN  RemoveAll(remove_player(game, id, t), ids \ {id}, t)

check_players_health(game, t) == RemoveAll(game, TimedOut(game, t), t)

\* should_delete_game with >= in place of >.
should_delete_game_at_timeout(game, t) ==
    IF game.finished_at # NoTime
    THEN t - game.finished_at >= GAME_DELETE_TIMEOUT
    ELSE FALSE

should_delete_game(game, t) ==
    IF game.finished_at # NoTime
    THEN t - game.finished_at > GAME_DELETE_TIMEOUT
    ELSE FALSE

is_ball_in_safe_zone(ball) ==
    /\ ball.x > SAFE_DISTANCE
    /\ ball.x < GAME_SIZE - SAFE_DISTANCE
    /\ ball.y > SAFE_DISTANCE
    /\ ball.y < GAME_SIZE - SAFE_DISTANCE

(***************************************************************************)
(* Paddle reflection.  hit_offset in [-1, 1] is quantised to quarters, so  *)
(* the reflection angle hit_offset * MAX_ANGLE is a multiple of 15 degrees *)
(* and its sine and cosine come from tables (in thousandths).              *)
(***************************************************************************)
SIN_TABLE == <<0, 259, 500, 707, 866>>
COS_TABLE == <<1000, 966, 866, 707, 500>>

HitOffset(d) ==
    LET half    == PADDLE_WIDTH \div 2
        steps   == Len(SIN_TABLE) - 1
        clamped == Clamp(d, -half, half)
        q       == (2 * Abs(clamped) * steps + half) \div (2 * half)
    IN  IF clamped < 0 THEN -q ELSE q

\* BALL_SPEED * sin(hit_offset * MAX_ANGLE), rounded.
Tangential(q) ==
    LET v == (2 * BALL_SPEED * SIN_TABLE[Abs(q) + 1] + 1000) \div 2000
    IN  IF q < 0 THEN -v ELSE v

\* The cosine taken for odd like the sine: negative for a negative offset.
Normal_odd(q) ==
    LET v == (2 * BALL_SPEED * COS_TABLE[Abs(q) + 1] + 1000) \div 2000
    IN  IF q < 0 THEN -v ELSE v

\* BALL_SPEED * cos(hit_offset * MAX_ANGLE), rounded.
Normal(q) == (2 * BALL_SPEED * COS_TABLE[Abs(q) + 1] + 1000) \div 2000

\* One arm of the match in Game::check_collision: the ball after the test
\* against the paddle of player id.
PaddleCollision(ball, id, player) ==
    LET paddle_start == player.paddle_position - PADDLE_WIDTH \div 2
        paddle_end   == player.paddle_position + PADDLE_WIDTH \div 2
        qx == HitOffset(ball.x - player.paddle_position)
        qy == HitOffset(ball.y - player.paddle_position)
        overlaps_x == /\ ball.x + BALL_RADIUS >= paddle_start
                      /\ ball.x - BALL_RADIUS <= paddle_end
        overlaps_y == /\ ball.y + BALL_RADIUS >= paddle_start
                      /\ ball.y - BALL_RADIUS <= paddle_end
    IN  CASE player.position = "Top" ->
                IF ball.y + ball.vy < PADDLE_PADDING /\ overlaps_x
                THEN [ball EXCEPT !.vx = Tangential(qx), !.vy = Normal(qx),
                                  !.y = PADDLE_PADDING + BALL_RADIUS,
                                  !.last_touched_by = id]
                ELSE ball
          [] player.position = "Bottom" ->
                IF ball.y + ball.vy > GAME_SIZE - PADDLE_PADDING /\ overlaps_x
                THEN [ball EXCEPT !.vx = Tangential(qx), !.vy = -Normal(qx),
                                  !.y = GAME_SIZE - PADDLE_PADDING - BALL_RADIUS,
                                  !.last_touched_by = id]
                ELSE ball
          [] player.position = "Left" ->
                IF ball.x + ball.vx < PADDLE_PADDING /\ overlaps_y
                THEN [ball EXCEPT !.vx = Normal(qy), !.vy = Tangential(qy),
                                  !.x = PADDLE_PADDING + BALL_RADIUS,
                                  !.last_touched_by = id]
                ELSE ball
          [] player.position = "Right" ->
                IF ball.x + ball.vx > GAME_SIZE - PADDLE_PADDING /\ overlaps_y
                THEN [ball EXCEPT !.vx = -Normal(qy), !.vy = Tangential(qy),
                                  !.x = GAME_SIZE - PADDLE_PADDING - BALL_RADIUS,
                                  !.last_touched_by = id]
                ELSE ball
          [] OTHER -> ball

\* The orders in which HashMap::values_mut can visit the players.
Orders(ids) ==
    {o \in [1..Cardinality(ids) -> ids] :
        \A i, j \in 1..Cardinality(ids) : i # j => o[i] # o[j]}

RECURSIVE CollideInOrder(_, _, _, _)
CollideInOrder(ball, players, order, i) ==
    IF i > Len(order) THEN ball
    ELSE CollideInOrder(PaddleCollision(ball, order[i], players[order[i]]),
                        players, order, i + 1)

\* Game::check_collision: the games the iteration order can produce.
check_collision(game) ==
    IF is_ball_in_safe_zone(game.ball) THEN {game}
    ELSE {[game EXCEPT !.ball = CollideInOrder(game.ball, game.players, o, 1)]
          : o \in Orders(DOMAIN game.players)}


\* The AI players' steps of one tick: every AI player moves one step in a
\* direction Player::ai can choose.
AiStep(players, ball) ==
    LET ais == {p \in DOMAIN players : players[p].is_ai}
        target(p) ==
            LET side_intersection == calculate_ball_position(players[p], ball, 1)
            IN  IF side_intersection # NoTarget THEN side_intersection ELSE CENTER
        choices == {d \in [ais -> Directions] :
                       \A p \in ais : d[p] \in MoveDirections(players[p], target(p))}
    IN  {[p \in DOMAIN players |->
            IF p \in ais THEN move_paddle(players[p], d[p]) ELSE players[p]]
         : d \in choices}

\* The wall reflections of one tick, on every side no player holds.
ReflectEmpty(players, ball) ==
    LET held == {players[p].position : p \in DOMAIN players}
        reflect(b, pos) == IF pos \in held THEN b
                           ELSE calculate_wall_reflection(b, pos)
    IN  reflect(reflect(reflect(reflect(ball, ALL_POSITIONS[1]),
                ALL_POSITIONS[2]), ALL_POSITIONS[3]), ALL_POSITIONS[4])


\* game_tick without the test of MAX_SCORE after a goal.
AfterGoal_plays_on(game, goal_pos, t) ==
    UNION {check_collision(g) : g \in goal_action(game, goal_pos, t)}

\* The part of Game::game_tick after a goal was detected on goal_pos.
AfterGoal(game, goal_pos, t) ==
    UNION {IF \E p \in DOMAIN g.players : g.players[p].score >= MAX_SCORE
           THEN {set_game_state(g, "Finished", t)}
           ELSE check_collision(g)
           : g \in goal_action(game, goal_pos, t)}

\* The physics of Game::game_tick on an Active game outside the goal pause.
Physics(game, t) ==
    LET moved == update_position(game.ball)
    IN  UNION {LET ball == ReflectEmpty(players, moved)
                   g    == [game EXCEPT !.players = players, !.ball = ball]
               IN  IF is_goal(ball) # NoPos
                   THEN AfterGoal(g, is_goal(ball), t)
                   ELSE check_collision(g)
               : players \in AiStep(game.players, moved)}

\* game_tick that checks the players' health in a Finished game too.
game_tick_checks_finished(game, t) ==
    LET checked == check_players_health(game, t)
    IN  IF checked.state # "Active" THEN {checked}
        ELSE IF /\ checked.last_goal_at # NoTime
                /\ t - checked.last_goal_at < GOAL_TIMEOUT
        THEN {checked}
        ELSE Physics(checked, t)

\* game_tick without the pause after a goal.
game_tick_no_pause(game, t) ==
    IF game.state = "Finished" THEN {game}
    ELSE LET checked == check_players_health(game, t)
         IN  IF checked.state # "Active" THEN {checked}
             ELSE Physics(checked, t)

\* Game::game_tick at instant t: the games it can produce.
game_tick(game, t) ==
    IF game.state = "Finished" THEN {game}
    ELSE LET checked == check_players_health(game, t)
         IN  IF checked.state # "Active" THEN {checked}
             ELSE IF /\ checked.last_goal_at # NoTime
                     /\ t - checked.last_goal_at < GOAL_TIMEOUT
             THEN {checked}
             ELSE Physics(checked, t)

(***************************************************************************)
(* The universe of the model                                               *)
(***************************************************************************)
MaxIds == 5                      \* player ids handed out in one run
GameIds == {"g1"}                \* ids create_game can hand out
UnknownGame == "g0"              \* a well-formed id of no game
BadUuid == "bad"                 \* a string Uuid::parse_str rejects
BadPlayer == -1                  \* a player_id Uuid::parse_str rejects
GameIdInputs == GameIds \cup {UnknownGame, BadUuid}
MaxSenders == 1                  \* players whose datagrams reach the server
Addrs == {"a1"}
Usernames == {"<none>", ""}      \* JoinGameRequest::username: None or empty
Instants == {0, 2001}            \* the instants at which the tick task runs

PLAYER_NAMES == <<"player_1", "player_2", "player_3", "player_4", "player_5">>
BOT_NAMES == <<"bot_1", "bot_2", "bot_3", "bot_4">>

IsUuid(s) == s # BadUuid

\* What is recorded of an operation: its name, the game id it was given, the
\* player it was about, its status (HTTP status, 0 for a datagram or a task)
\* and the Result of the model call it made.
Answer(op, gid, pid, status, err) ==
    [op |-> op, gid |-> gid, pid |-> pid, status |-> status, err |-> err]

(***************************************************************************)
(* Control plane (server/api/handlers.rs)                                  *)
(***************************************************************************)
create_game ==
    \E gid \in GameIds \ DOMAIN lobbies :
        /\ lobbies' = Insert(lobbies, gid, GameNew)
        /\ last' = Answer("create_game", gid, NoId, 200, "Ok")
        /\ UNCHANGED <<now, nextId, server, client>>

\* The admission both join_game and restart_game end with: name, position,
\* Player::new, add_player.
Admit(op, gid, game, username, is_ai) ==
    LET n      == Cardinality(DOMAIN game.players) + 1
        name   == IF is_ai THEN BOT_NAMES[n]
                  ELSE IF username \notin {"<none>", ""} THEN username
                  ELSE PLAYER_NAMES[n]
        id     == nextId + 1
        player == [PlayerNew(name, is_ai) EXCEPT !.position = assign_position(game)]
        added  == add_player(game, id, player)
    IN  /\ nextId < MaxIds
        /\ nextId' = id
        /\ lobbies' = [lobbies EXCEPT ![gid] = added.game]
        /\ last' = Answer(op, gid, id,
                          IF added.err = "Ok" THEN 200 ELSE 500, added.err)

Reject(op, gid, status) ==
    /\ last' = Answer(op, gid, NoId, status, "none")
    /\ UNCHANGED <<lobbies, nextId>>


\* join_game without the check of the game state.
join_game_any_state(gid, username) ==
    /\ UNCHANGED <<now, server, client>>
    /\ IF ~IsUuid(gid) THEN Reject("join_game", gid, 400)
       ELSE IF gid \notin DOMAIN lobbies THEN Reject("join_game", gid, 404)
       ELSE Admit("join_game", gid, lobbies[gid], username, FALSE)

join_game(gid, username) ==
    /\ UNCHANGED <<now, server, client>>
    /\ IF ~IsUuid(gid) THEN Reject("join_game", gid, 400)
       ELSE IF gid \notin DOMAIN lobbies THEN Reject("join_game", gid, 404)
       ELSE IF lobbies[gid].state # "WaitingForPlayers"
            THEN Reject("join_game", gid, 400)
       ELSE Admit("join_game", gid, lobbies[gid], username, FALSE)

add_bot(gid) ==
    /\ UNCHANGED <<now, server, client>>
    /\ IF ~IsUuid(gid) THEN Reject("add_bot", gid, 400)
       ELSE IF gid \notin DOMAIN lobbies THEN Reject("add_bot", gid, 404)
       ELSE IF Cardinality(DOMAIN lobbies[gid].players) + 1 > 4
            THEN Reject("add_bot", gid, 400)
       ELSE Admit("add_bot", gid, lobbies[gid], "<none>", TRUE)


\* The reset of restart_game applied whatever the state of the game.
RestartReset_every_call(game, t) ==
    [set_game_state(game, "WaitingForPlayers", t) EXCEPT
        !.started_at = NoTime, !.finished_at = NoTime, !.players = <<>>]

\* The reset of restart_game without clearing finished_at.
RestartReset_keeps_finished_at(game, t) ==
    IF game.state = "Finished"
    THEN [set_game_state(game, "WaitingForPlayers", t) EXCEPT
             !.started_at = NoTime, !.players = <<>>]
    ELSE game

\* The reset of restart_game without players.clear().
RestartReset_keeps_players(game, t) ==
    IF game.state = "Finished"
    THEN [set_game_state(game, "WaitingForPlayers", t) EXCEPT
             !.started_at = NoTime, !.finished_at = NoTime]
    ELSE game

\* The reset restart_game applies to a Finished game before admitting.
RestartReset(game, t) ==
    IF game.state = "Finished"
    THEN [set_game_state(game, "WaitingForPlayers", t) EXCEPT
             !.started_at = NoTime, !.finished_at = NoTime, !.players = <<>>]
    ELSE game

restart_game(gid, username) ==
    /\ UNCHANGED <<now, server, client>>
    /\ IF ~IsUuid(gid) THEN Reject("restart_game", gid, 400)
       ELSE IF gid \notin DOMAIN lobbies THEN Reject("restart_game", gid, 404)
       ELSE LET game == RestartReset(lobbies[gid], now)
            IN  IF game.state # "WaitingForPlayers"
                THEN Reject("restart_game", gid, 400)
                ELSE Admit("restart_game", gid, game, username, FALSE)

\* remove_bot that removes the first player it finds, AI or not.
remove_bot_any_player(gid) ==
    /\ UNCHANGED <<now, nextId, server, client>>
    /\ IF ~IsUuid(gid)
       THEN /\ last' = Answer("remove_bot", gid, NoId, 400, "none")
            /\ UNCHANGED lobbies
       ELSE IF gid \notin DOMAIN lobbies
       THEN /\ last' = Answer("remove_bot", gid, NoId, 404, "none")
            /\ UNCHANGED lobbies
       ELSE LET game == lobbies[gid]
                bots == DOMAIN game.players
            IN  IF bots = {}
                THEN /\ last' = Answer("remove_bot", gid, NoId, 400, "none")
                     /\ UNCHANGED lobbies
                ELSE \E bot \in bots :
                        /\ lobbies' = [lobbies EXCEPT
                                          ![gid] = remove_player(game, bot, now)]
                        /\ last' = Answer("remove_bot", gid, bot, 200, "Ok")

remove_bot(gid) ==
    /\ UNCHANGED <<now, nextId, server, client>>
    /\ IF ~IsUuid(gid)
       THEN /\ last' = Answer("remove_bot", gid, NoId, 400, "none")
            /\ UNCHANGED lobbies
       ELSE IF gid \notin DOMAIN lobbies
       THEN /\ last' = Answer("remove_bot", gid, NoId, 404, "none")
            /\ UNCHANGED lobbies
       ELSE LET game == lobbies[gid]
                bots == {p \in DOMAIN game.players : game.players[p].is_ai}
            IN  IF bots = {}
                THEN /\ last' = Answer("remove_bot", gid, NoId, 400, "none")
                     /\ UNCHANGED lobbies
                ELSE \E bot \in bots :
                        /\ lobbies' = [lobbies EXCEPT
                                          ![gid] = remove_player(game, bot, now)]
                        /\ last' = Answer("remove_bot", gid, bot, 200, "Ok")


(***************************************************************************)
(* Data plane (common/game_loop/message_handler.rs)                        *)
(***************************************************************************)
(***************************************************************************)
(* The tasks of bin/server.rs and what they share: the input queue behind  *)
(* its mutex (held by the tick task from the head of the drain to the end  *)
(* of the iteration), the datagram the receiver holds while it waits for   *)
(* that mutex, the input process_input is working on.  Every section under *)
(* the GameRooms mutex is one step: none has an await inside.              *)
(*   pc: "sleep" (interval.tick().await), "drain" (the head of the while   *)
(*   let), "process_input" (lobbies.lock().await in process_input),        *)
(*   "game_tick" (game_rooms_loop.lock().await); "direct" where the tasks  *)
(*   are not followed and a datagram is processed as it arrives.           *)
(***************************************************************************)
(***************************************************************************)
(* The client's side of the datagrams (client/net/udp.rs): the snapshot a  *)
(* game is sent as, and what the client makes of a datagram.               *)
(***************************************************************************)
ServerAddr == "server"           \* the address UdpClient::new resolved
RogueAddr == "rogue"             \* any other source of datagrams

PlayerDtoFrom(player) ==
    [name |-> player.name, score |-> player.score, position |-> player.position,
     paddle_position |-> player.paddle_position, is_ready |-> player.is_ready]

GameDtoFrom(game) ==
    [state |-> game.state, started_at |-> game.started_at,
     ball |-> [x |-> game.ball.x, y |-> game.ball.y,
               vx |-> game.ball.vx, vy |-> game.ball.vy],
     players |-> [p \in DOMAIN game.players |-> PlayerDtoFrom(game.players[p])]]

\* Bytes that rmp_serde::from_slice reads a GameDto from, and bytes it
\* reads none from.
Datagram(dto) == [valid |-> TRUE, game |-> dto]
Garbage == [valid |-> FALSE, game |-> GameDtoFrom(GameNew)]

\* recv_updated_game that does not look at the source.
recv_updated_game_any_source(server_addr, addr, datagram) ==
    IF ~datagram.valid
    THEN [err |-> "MsgPackDeserialization", game |-> datagram.game]
    ELSE [err |-> "Ok", game |-> datagram.game]

\* UdpClient::recv_updated_game on a datagram from addr: a Result, the
\* game of it read when it is Ok.
recv_updated_game(server_addr, addr, datagram) ==
    IF addr # server_addr
    THEN [err |-> "InvalidSource", game |-> datagram.game]
    ELSE IF ~datagram.valid
    THEN [err |-> "MsgPackDeserialization", game |-> datagram.game]
    ELSE [err |-> "Ok", game |-> datagram.game]

\* The client in GameBoard: the UdpClient and the current game.
ClientNew(server_addr, game) ==
    [server_addr |-> server_addr,
     game        |-> GameDtoFrom(game),
     from        |-> NoAddr,      \* the source of the last datagram read
     err         |-> "none"]      \* what recv_updated_game returned for it

\* No client is followed.
NoClient == ClientNew(NoAddr, GameNew)

NoInput ==
    [seq |-> 0, gid |-> "none", pid |-> NoId, action |-> "none", addr |-> NoAddr]

ServerNew ==
    [pc       |-> "sleep",
     queue    |-> <<>>,        \* message_queue
     pending  |-> NoInput,     \* the receiver's input, not yet pushed
     current  |-> NoInput,     \* the input popped, in process_input
     received |-> 0,           \* datagrams deserialized so far
     applied  |-> <<>>,        \* the inputs process_input has returned from
     dirty    |-> FALSE,       \* an input was processed, physics not yet run
     rooms    |-> "free",      \* the task that holds the GameRooms guard
                               \* from one step to the next, if any
     sent     |-> {}]          \* the players the last broadcast sent to

Direct == [ServerNew EXCEPT !.pc = "direct"]

\* process_input returns to the tick task's while let.
Returned(s) ==
    IF s.pc = "process_input"
    THEN [s EXCEPT !.pc = "drain",
                   !.current = NoInput,
                   !.applied = Append(@, [seq |-> s.current.seq, pid |-> s.current.pid]),
                   !.dirty = TRUE,
                   !.rooms = "free"]
    ELSE s

\* VecDeque::pop_back, as an Option.
pop_back(queue) == IF queue = <<>> THEN NoInput ELSE queue[Len(queue)]

\* VecDeque::pop_front, as an Option.
pop_front(queue) == IF queue = <<>> THEN NoInput ELSE Head(queue)

\* A pop that leaves the input at the front of the queue.
Rest_keeps_front(queue, input) == queue

\* What is left of the queue when input has been popped.
Rest(queue, input) ==
    LET i == CHOOSE k \in 1..Len(queue) : queue[k] = input
    IN  SubSeq(queue, 1, i - 1) \o SubSeq(queue, i + 1, Len(queue))

\* What the tick task is waiting for at its position: each is an .await.
Awaits(s) ==
    CASE s.pc = "sleep"         -> "interval.tick()"
      [] s.pc = "process_input" -> "lobbies.lock()"
      [] s.pc = "game_tick"     -> "game_rooms_loop.lock()"
      [] OTHER                  -> "none"

\* The queue guard dropped once the drain is over.
queue_locked_for_drain(s) == s.pc \in {"drain", "process_input"}

\* The tick task holds the guard of message_queue_loop.lock().await.
queue_locked(s) == s.pc \in {"drain", "process_input", "game_tick"}

Actions ==
    {"JoinGame", "PauseGame", "ResumeGame", "PlayerReady",
     "MovePaddlePositive", "MovePaddleNegative", "Disconnect", "Ping"}

IsMovePaddle(action) == action \in {"MovePaddlePositive", "MovePaddleNegative"}

\* validate_game_state that lets JoinGame through in every state.
validate_game_state_join_anytime(action, game_state) ==
    IF IsMovePaddle(action) THEN game_state = "Active" ELSE TRUE

\* validate_game_state that lets every action through.
validate_game_state_always(action, game_state) == TRUE

validate_game_state(action, game_state) ==
    IF IsMovePaddle(action) THEN game_state = "Active"
    ELSE IF action = "JoinGame" THEN game_state = "WaitingForPlayers"
    ELSE TRUE

\* The match on input.action, for a player found in the game: the Result
\* of the state transition it attempts (Ok when it attempts none) and the
\* game afterwards.
ApplyInput(game, pid, action, addr, t) ==
    LET player == game.players[pid]
    IN  CASE action = "JoinGame" ->
                [err |-> "Ok",
                 game |-> [game EXCEPT !.players[pid].addr = addr,
                                       !.players[pid].ping_timestamp = t]]
          [] action = "PlayerReady" ->
                LET toggled == [game EXCEPT !.players[pid].is_ready = ~@]
                    started == start_game(toggled, t)
                IN  IF started.err = "Ok"
                    THEN [err |-> "Ok", game |-> [started.game EXCEPT !.ball = BallNew]]
                    ELSE started
          [] action = "PauseGame" -> pause_game(game)
          [] action = "MovePaddlePositive" ->
                [err |-> "Ok",
                 game |-> [game EXCEPT !.players[pid] = move_paddle(@, "Positive")]]
          [] action = "MovePaddleNegative" ->
                [err |-> "Ok",
                 game |-> [game EXCEPT !.players[pid] = move_paddle(@, "Negative")]]
          [] action = "Disconnect" ->
                [err |-> "Ok", game |-> remove_player(game, pid, t)]
          [] action = "Ping" ->
                [err |-> "Ok",
                 game |-> [game EXCEPT !.players[pid].ping_timestamp = t]]
          [] OTHER -> [err |-> "Unhandled", game |-> game]

\* process_input that creates the player a datagram names when the game
\* does not hold it.
process_input_inserts_player(gid, pid, action, addr) ==
    /\ UNCHANGED <<now, nextId, client>>
    /\ server' = Returned(server)
    /\ IF \/ ~IsUuid(gid)
          \/ pid = BadPlayer
          \/ gid \notin DOMAIN lobbies
       THEN /\ last' = Answer(action, gid, pid, 0, "Dropped")
            /\ UNCHANGED lobbies
       ELSE IF ~validate_game_state(action, lobbies[gid].state)
       THEN /\ last' = Answer(action, gid, pid, 0, "Dropped")
            /\ UNCHANGED lobbies
       ELSE LET game == IF pid \in DOMAIN lobbies[gid].players THEN lobbies[gid]
                        ELSE [lobbies[gid] EXCEPT
                                 !.players = Insert(@, pid, PlayerNew("", FALSE))]
                applied == ApplyInput(game, pid, action, addr, now)
            IN  /\ lobbies' = [lobbies EXCEPT ![gid] = applied.game]
                /\ last' = Answer(action, gid, pid, 0, applied.err)

process_input(gid, pid, action, addr) ==
    /\ UNCHANGED <<now, nextId, client>>
    /\ server' = Returned(server)
    /\ IF \/ ~IsUuid(gid)
          \/ pid = BadPlayer
          \/ gid \notin DOMAIN lobbies
       THEN /\ last' = Answer(action, gid, pid, 0, "Dropped")
            /\ UNCHANGED lobbies
       ELSE IF \/ ~validate_game_state(action, lobbies[gid].state)
               \/ pid \notin DOMAIN lobbies[gid].players
       THEN /\ last' = Answer(action, gid, pid, 0, "Dropped")
            /\ UNCHANGED lobbies
       ELSE LET applied == ApplyInput(lobbies[gid], pid, action, addr, now)
            IN  /\ lobbies' = [lobbies EXCEPT ![gid] = applied.game]
                /\ last' = Answer(action, gid, pid, 0, applied.err)

(***************************************************************************)
(* The tick task (bin/server.rs): game_tick on every game, under one lock, *)
(* at the instant the interval fires.                                      *)
(***************************************************************************)
TickAll(rooms, t) ==
    {f \in [DOMAIN rooms -> UNION {game_tick(rooms[g], t) : g \in DOMAIN rooms}] :
        \A g \in DOMAIN rooms : f[g] \in game_tick(rooms[g], t)}

Tick(t) ==
    /\ t > now
    /\ now' = t
    /\ lobbies' \in TickAll(lobbies, t)
    /\ last' = Answer("tick", "all", NoId, 0, "Ok")
    /\ UNCHANGED <<nextId, server, client>>

\* The cleaner task: GameRooms::delete_games.
delete_games ==
    /\ lobbies' = [g \in {h \in DOMAIN lobbies : ~should_delete_game(lobbies[h], now)}
                     |-> lobbies[g]]
    /\ last' = Answer("delete_games", "all", NoId, 0, "Ok")
    /\ UNCHANGED <<now, nextId, server, client>>

(***************************************************************************)
(* The session life cycle: every control-plane request, every datagram     *)
(* but MovePaddle, and the tick, from an empty GameRooms.                  *)
(***************************************************************************)
LobbyActions == Actions \ {"MovePaddlePositive", "MovePaddleNegative"}

\* Every action from every sender to every game, and one datagram with each
\* kind of id that names nothing.
LobbyInputs ==
    (GameIds \X (1..MaxSenders) \X LobbyActions)
        \cup {<<BadUuid, 1, "Ping">>, <<UnknownGame, 1, "Ping">>,
              <<CHOOSE g \in GameIds : TRUE, BadPlayer, "Ping">>}

Init ==
    /\ lobbies = <<>>
    /\ now = 0
    /\ nextId = 0
    /\ last = Answer("none", "none", NoId, 0, "none")
    /\ server = Direct
    /\ client = NoClient

Next ==
    \/ create_game
    \/ \E gid \in GameIdInputs, username \in Usernames : join_game(gid, username)
    \/ \E gid \in GameIdInputs : add_bot(gid)
    \/ \E gid \in GameIdInputs, username \in Usernames : restart_game(gid, username)
    \/ \E gid \in GameIdInputs : remove_bot(gid)
    \/ \E input \in LobbyInputs, addr \in Addrs :
            process_input(input[1], input[2], input[3], addr)
    \/ \E t \in Instants : Tick(t)

Spec == Init /\ [][Next]_vars

(***************************************************************************)
(* A rally about to end: a game that has been Active for a while, one tick *)
(* before the ball crosses a goal line.  Players 1..4 joined in this order *)
(* and hold Top, Bottom, Right, Left; the game started at instant 0.       *)
(***************************************************************************)
PlayStart == 3000                \* the instant of the last tick so far
TICK_MS == 16                    \* 1000 / 60, the period of the tick task
PlayPings == {PlayStart + TICK_MS - PING_TIMEOUT - 1,
              PlayStart + TICK_MS - PING_TIMEOUT}
PlayInstants == {PlayStart + TICK_MS,
                 PlayStart + TICK_MS + GOAL_TIMEOUT - 1,
                 PlayStart + TICK_MS + GOAL_TIMEOUT}
PlayScores == {0, MAX_SCORE - 1}
AWAY == CENTER - 3 * PADDLE_DELTA \* a paddle three steps off the centre

Seat(id, position, is_ai, paddle_position) ==
    [PlayerNew(IF is_ai THEN BOT_NAMES[id] ELSE PLAYER_NAMES[id], is_ai) EXCEPT
        !.position = position, !.paddle_position = paddle_position,
        !.is_ready = TRUE]

\* Each scene: the players, the ball, the player whose score varies.
\* first_serve: the ball of Ball::new, 39 ticks on (1000 + 39 * 25), the
\*   Bottom paddle moved out of its way; nobody has touched it.
\* top_shot: the Top paddle returned the ball straight from y = 75, 63
\*   ticks ago (75 + 63 * 30); with or without a bot on the Right.
\* own_goal: player 2 left; the ball Top returned came back off the Bottom
\*   wall at y = 1975, 65 ticks ago (1975 - 65 * 30), Top has moved away.
\* side_shot: four players; the Right paddle returned the ball straight
\*   from x = 1925, 63 ticks ago (1925 - 63 * 30), Left has moved away.
PlayScenes ==
    {[players |-> (1 :> Seat(1, "Top", FALSE, CENTER)
                   @@ 2 :> Seat(2, "Bottom", FALSE, AWAY)),
      ball |-> [x |-> CENTER, y |-> CENTER + 39 * INITIAL_SPEED, vx |-> 0,
                vy |-> INITIAL_SPEED, last_touched_by |-> NoId],
      scorer |-> 1],
     [players |-> (1 :> Seat(1, "Top", FALSE, CENTER)
                   @@ 2 :> Seat(2, "Bottom", FALSE, AWAY)),
      ball |-> [x |-> CENTER, y |-> PADDLE_PADDING + BALL_RADIUS + 63 * BALL_SPEED,
                vx |-> 0, vy |-> BALL_SPEED, last_touched_by |-> 1],
      scorer |-> 1],
     [players |-> (1 :> Seat(1, "Top", FALSE, CENTER)
                   @@ 2 :> Seat(2, "Bottom", FALSE, AWAY)
                   @@ 3 :> Seat(3, "Right", TRUE, CENTER)),
      ball |-> [x |-> CENTER, y |-> PADDLE_PADDING + BALL_RADIUS + 63 * BALL_SPEED,
                vx |-> 0, vy |-> BALL_SPEED, last_touched_by |-> 1],
      scorer |-> 1],
     [players |-> (1 :> Seat(1, "Top", FALSE, AWAY)
                   @@ 3 :> Seat(3, "Right", FALSE, CENTER)),
      ball |-> [x |-> CENTER, y |-> GAME_SIZE - BALL_RADIUS - 65 * BALL_SPEED,
                vx |-> 0, vy |-> -BALL_SPEED, last_touched_by |-> 1],
      scorer |-> 1],
     [players |-> (1 :> Seat(1, "Top", FALSE, CENTER)
                   @@ 2 :> Seat(2, "Bottom", FALSE, CENTER)
                   @@ 3 :> Seat(3, "Right", FALSE, CENTER)
                   @@ 4 :> Seat(4, "Left", FALSE, AWAY)),
      ball |-> [x |-> GAME_SIZE - PADDLE_PADDING - BALL_RADIUS - 63 * BALL_SPEED,
                y |-> CENTER, vx |-> -BALL_SPEED, vy |-> 0, last_touched_by |-> 3],
      scorer |-> 3]}

\* A scene as a game, with the scorer's score and the humans' last pings.
PlayGame(scene, score, pings) ==
    [GameNew EXCEPT
        !.state = "Active",
        !.started_at = 0,
        !.ball = scene.ball,
        !.players =
            [p \in DOMAIN scene.players |->
                [scene.players[p] EXCEPT
                    !.score = IF p = scene.scorer THEN score ELSE 0,
                    !.ping_timestamp = IF scene.players[p].is_ai THEN NoTime
                                       ELSE pings[p]]]]

PlayGames ==
    {PlayGame(scene, score, pings) :
        scene \in PlayScenes, score \in PlayScores, pings \in [1..MAX_PLAYERS -> PlayPings]}

\* The datagrams of the rally: Disconnect and Ping.
PlayInputs == ((1..MAX_PLAYERS) \X {"Disconnect"}) \cup ((1..2) \X {"Ping"})

InitPlay ==
    /\ lobbies \in {(CHOOSE g \in GameIds : TRUE) :> game : game \in PlayGames}
    /\ now = PlayStart
    /\ nextId = MAX_PLAYERS
    /\ last = Answer("none", "none", NoId, 0, "none")
    /\ server = Direct
    /\ client = NoClient

NextPlay ==
    \/ \E gid \in GameIds, input \in PlayInputs, addr \in Addrs :
            process_input(gid, input[1], input[2], addr)
    \/ \E t \in PlayInstants : Tick(t)

SpecPlay == InitPlay /\ [][NextPlay]_vars

(***************************************************************************)
(* The rally, and play_again once it is over.                              *)
(***************************************************************************)
NextReplay ==
    \/ NextPlay
    \/ \E gid \in GameIds, username \in Usernames : restart_game(gid, username)

SpecReplay == InitPlay /\ [][NextReplay]_vars

(***************************************************************************)
(* The walls: rallies one tick before the ball reaches a side or a corner  *)
(* of the court, with the players that hold or do not hold those sides.    *)
(***************************************************************************)
\* straight: the ball Top returned straight from y = 75, 63 ticks ago.
\* corner: Top, its paddle at 580, returned the ball at x = 545 with
\*   hit_offset -1/4, 65 ticks ago: the ball is at (545 - 65 * 8,
\*   75 + 65 * 29) = (25, 1960) and its next step crosses both the Left and
\*   the Bottom line.
StraightBall ==
    [x |-> CENTER, y |-> PADDLE_PADDING + BALL_RADIUS + 63 * BALL_SPEED,
     vx |-> 0, vy |-> BALL_SPEED, last_touched_by |-> 1]
CornerPaddle == CENTER - 7 * PADDLE_DELTA
CornerBall ==
    LET q == HitOffset(545 - CornerPaddle)
    IN  [x |-> 545 + 65 * Tangential(q),
         y |-> PADDLE_PADDING + BALL_RADIUS + 65 * Normal(q),
         vx |-> Tangential(q), vy |-> Normal(q), last_touched_by |-> 1]

WallScenes ==
    {[players |-> (1 :> Seat(1, "Top", FALSE, CENTER)
                   @@ 3 :> Seat(3, "Right", FALSE, CENTER)),
      ball |-> StraightBall, scorer |-> 1],
     [players |-> (1 :> Seat(1, "Top", FALSE, CornerPaddle)
                   @@ 3 :> Seat(3, "Right", FALSE, CENTER)),
      ball |-> CornerBall, scorer |-> 1],
     [players |-> (1 :> Seat(1, "Top", FALSE, CornerPaddle)
                   @@ 2 :> Seat(2, "Bottom", FALSE, CENTER)
                   @@ 3 :> Seat(3, "Right", FALSE, CENTER)),
      ball |-> CornerBall, scorer |-> 1],
     [players |-> (1 :> Seat(1, "Top", FALSE, CornerPaddle)
                   @@ 2 :> Seat(2, "Bottom", FALSE, CENTER)
                   @@ 3 :> Seat(3, "Right", TRUE, CENTER)
                   @@ 4 :> Seat(4, "Left", FALSE, CENTER)),
      ball |-> CornerBall, scorer |-> 1]}

WallGames ==
    {PlayGame(scene, score, [p \in 1..MAX_PLAYERS |-> NoTime]) :
        scene \in WallScenes, score \in PlayScores}

InitWall ==
    /\ lobbies \in {(CHOOSE g \in GameIds : TRUE) :> game : game \in WallGames}
    /\ now = PlayStart
    /\ nextId = MAX_PLAYERS
    /\ last = Answer("none", "none", NoId, 0, "none")
    /\ server = Direct
    /\ client = NoClient

NextWall ==
    \/ \E gid \in GameIds, pid \in 1..MAX_PLAYERS, addr \in Addrs :
            process_input(gid, pid, "Disconnect", addr)
    \/ \E t \in PlayInstants : Tick(t)

SpecWall == InitWall /\ [][NextWall]_vars

(***************************************************************************)
(* The paddles: a game that has just started with two humans and a bot,    *)
(* MovePaddle datagrams naming a human and naming the bot (the server      *)
(* moves whichever player the datagram names), and the first ticks.        *)
(***************************************************************************)
MaxTicks == 3
PaddleInstants == {k * TICK_MS : k \in 1..MaxTicks}
PaddleInputs == {1, 3} \X {"MovePaddlePositive", "MovePaddleNegative"}

PaddleGame ==
    [GameNew EXCEPT
        !.state = "Active",
        !.started_at = 0,
        !.players = (1 :> Seat(1, "Top", FALSE, CENTER)
                     @@ 2 :> Seat(2, "Bottom", FALSE, CENTER)
                     @@ 3 :> Seat(3, "Right", TRUE, CENTER))]

InitPaddle ==
    /\ lobbies = (CHOOSE g \in GameIds : TRUE) :> PaddleGame
    /\ now = 0
    /\ nextId = 3
    /\ last = Answer("none", "none", NoId, 0, "none")
    /\ server = Direct
    /\ client = NoClient

NextPaddle ==
    \/ \E gid \in GameIds, input \in PaddleInputs, addr \in Addrs :
            process_input(gid, input[1], input[2], addr)
    \/ \E t \in PaddleInstants : Tick(t)

SpecPaddle == InitPaddle /\ [][NextPaddle]_vars


(***************************************************************************)
(* MovePaddle in every game state: the game of the paddles, which a        *)
(* PauseGame pauses, a Disconnect finishes and play_again puts back in the *)
(* lobby with a new player.                                                *)
(***************************************************************************)
GateSenders == {1, 4}
GateInputs ==
    (GateSenders \X {"MovePaddlePositive", "MovePaddleNegative", "PauseGame"})
        \cup ({1, 2} \X {"Disconnect"})

NextGate ==
    \/ \E gid \in GameIds, input \in GateInputs, addr \in Addrs :
            process_input(gid, input[1], input[2], addr)
    \/ \E gid \in GameIds, username \in Usernames : restart_game(gid, username)
    \/ \E t \in PaddleInstants : Tick(t)

SpecGate == InitPaddle /\ [][NextGate]_vars

(***************************************************************************)
(* The sweep: two games, each waiting, being played, or finished by a      *)
(* Disconnect at instant 0 or 1, and the cleaner task running between the  *)
(* ticks around 60 s later.                                                *)
(***************************************************************************)
SweepIds == {"g1", "g2"}
SweepStart == 1
SweepInstants == {GAME_DELETE_TIMEOUT, GAME_DELETE_TIMEOUT + 1, GAME_DELETE_TIMEOUT + 2}
SweepGames ==
    {GameNew, PaddleGame} \cup {remove_player(PaddleGame, 1, t) : t \in 0..SweepStart}

InitSweep ==
    /\ lobbies \in [SweepIds -> SweepGames]
    /\ now = SweepStart
    /\ nextId = 3
    /\ last = Answer("none", "none", NoId, 0, "none")
    /\ server = Direct
    /\ client = NoClient

NextSweep ==
    \/ delete_games
    \/ \E gid \in SweepIds, username \in Usernames : restart_game(gid, username)
    \/ \E gid \in SweepIds, pid \in 1..2, addr \in Addrs :
            process_input(gid, pid, "Disconnect", addr)
    \/ \E t \in SweepInstants : Tick(t)

SpecSweep == InitSweep /\ [][NextSweep]_vars

(***************************************************************************)
(* The four tasks and the handlers side by side: a game two players have   *)
(* joined over HTTP, their datagrams on the way.                           *)
(***************************************************************************)
MaxInputs == 3                   \* datagrams the receiver reads
ServerInstants == {TICK_MS, 2 * TICK_MS}
ServerActions == {"JoinGame", "Ping", "PlayerReady"}

ServerInputs ==
    {[seq |-> 0, gid |-> gid, pid |-> pid, action |-> action, addr |-> addr] :
        gid \in GameIds, pid \in 1..2, action \in ServerActions, addr \in Addrs}

ServerGame ==
    [GameNew EXCEPT
        !.players = (1 :> [PlayerNew(PLAYER_NAMES[1], FALSE) EXCEPT !.position = "Top"]
                     @@ 2 :> [PlayerNew(PLAYER_NAMES[2], FALSE) EXCEPT !.position = "Bottom"])]

InitServer ==
    /\ lobbies = (CHOOSE g \in GameIds : TRUE) :> ServerGame
    /\ now = 0
    /\ nextId = 2
    /\ last = Answer("none", "none", NoId, 0, "none")
    /\ server = ServerNew
    /\ client = NoClient

\* The receiver task: recv_from and rmp_serde::from_slice.
RecvFrom(input) ==
    /\ server.pending = NoInput
    /\ server.received < MaxInputs
    /\ server' = [server EXCEPT !.received = @ + 1,
                                !.pending = [input EXCEPT !.seq = server.received + 1]]
    /\ last' = Answer("recv_from", input.gid, input.pid, 0, "Ok")
    /\ UNCHANGED <<lobbies, now, nextId, client>>

\* The receiver task: message_queue_recv.lock().await.push_back(input).
PushBack ==
    /\ server.pending # NoInput
    /\ ~queue_locked(server)
    /\ server' = [server EXCEPT !.queue = Append(@, server.pending),
                                !.pending = NoInput]
    /\ last' = Answer("push_back", server.pending.gid, server.pending.pid, 0, "Ok")
    /\ UNCHANGED <<lobbies, now, nextId, client>>

\* The tick task: the interval fires and the task locks the queue.
IntervalTick(t) ==
    /\ server.pc = "sleep"
    /\ t > now
    /\ now' = t
    /\ server' = [server EXCEPT !.pc = "drain"]
    /\ last' = Answer("lock_queue", "all", NoId, 0, "Ok")
    /\ UNCHANGED <<lobbies, nextId, client>>

\* The tick task: while let Some(input) = queue.pop_front().
PopFront ==
    /\ server.pc = "drain"
    /\ LET input == pop_front(server.queue)
       IN  /\ server' = IF input = NoInput
                        THEN [server EXCEPT !.pc = "game_tick"]
                        ELSE [server EXCEPT !.pc = "process_input",
                                            !.current = input,
                                            !.queue = Rest(@, input)]
           /\ last' = Answer("pop_front", input.gid, input.pid, 0,
                             IF input = NoInput THEN "None" ELSE "Some")
    /\ UNCHANGED <<lobbies, now, nextId, client>>

\* The tick task: process_input(input.input, ..., input.addr).await.
ProcessInput ==
    /\ server.pc = "process_input"
    /\ process_input(server.current.gid, server.current.pid,
                     server.current.action, server.current.addr)

\* game_tick on every game with the GameRooms guard kept past the end of
\* the iteration.
GameTicks_keeps_rooms ==
    /\ server.pc = "game_tick"
    /\ lobbies' \in TickAll(lobbies, now)
    /\ server' = [server EXCEPT !.pc = "sleep", !.dirty = FALSE, !.rooms = "tick"]
    /\ last' = Answer("tick", "all", NoId, 0, "Ok")
    /\ UNCHANGED <<now, nextId, client>>

\* The tick task: game_tick on every game, under the GameRooms lock; the
\* two guards are dropped at the end of the iteration.
GameTicks ==
    /\ server.pc = "game_tick"
    /\ lobbies' \in TickAll(lobbies, now)
    /\ server' = [server EXCEPT !.pc = "sleep", !.dirty = FALSE, !.rooms = "free"]
    /\ last' = Answer("tick", "all", NoId, 0, "Ok")
    /\ UNCHANGED <<now, nextId, client>>

\* The players a snapshot of the games is sent to.
Recipients(rooms) ==
    UNION {{p \in DOMAIN rooms[g].players : rooms[g].players[p].addr # NoAddr} :
              g \in DOMAIN rooms}

\* The broadcast task: clone the games under the lock, send each to the
\* players of it that have an addr.
Broadcast ==
    /\ server' = [server EXCEPT !.sent = Recipients(lobbies)]
    /\ last' = Answer("broadcast", "all", NoId, 0, "Ok")
    /\ UNCHANGED <<lobbies, now, nextId, client>>

NextServer ==
    \/ \E input \in ServerInputs : RecvFrom(input)
    \/ PushBack
    \/ \E t \in ServerInstants : IntervalTick(t)
    \/ PopFront
    \/ ProcessInput
    \/ GameTicks
    \/ Broadcast
    \/ \E gid \in GameIds : add_bot(gid)
    \/ \E gid \in GameIds : remove_bot(gid)
    \/ delete_games

SpecServer == InitServer /\ [][NextServer]_vars

(***************************************************************************)
(* The same tasks with the tick task's acquisitions of the GameRooms mutex *)
(* as steps of their own: while the tick task holds the guard, the         *)
(* handlers, the cleaner and the broadcast task wait.  A section that      *)
(* takes one mutex, awaits nothing and drops it stays one step.            *)
(***************************************************************************)
Tasks == {"receiver", "tick", "handler", "cleaner", "broadcast"}

\* The mutexes a task holds from one step to the next.
Holds(s, task) ==
    IF task = "tick"
    THEN (IF queue_locked(s) THEN {"queue"} ELSE {})
            \cup (IF s.rooms = "tick" THEN {"rooms"} ELSE {})
    ELSE {}

\* The mutex whose lock().await a task is at.
WaitsFor(s, task) ==
    CASE task = "tick" /\ s.pc \in {"process_input", "game_tick"}
                       /\ s.rooms # "tick"       -> "rooms"
      [] task = "receiver" /\ s.pending # NoInput -> "queue"
      [] OTHER                                    -> "none"

LockInputs == {input \in ServerInputs : input.pid = 1 /\ input.action # "PlayerReady"}

\* The tick task: lobbies.lock().await in process_input, and
\* game_rooms_loop.lock().await.
LockRooms ==
    /\ WaitsFor(server, "tick") = "rooms"
    /\ server.rooms = "free"
    /\ server' = [server EXCEPT !.rooms = "tick"]
    /\ last' = Answer("lock_rooms", "all", NoId, 0, "Ok")
    /\ UNCHANGED <<lobbies, now, nextId, client>>

LockedProcessInput == server.rooms = "tick" /\ ProcessInput

LockedGameTicks == server.rooms = "tick" /\ GameTicks

HandlerAddBot(gid) == server.rooms = "free" /\ add_bot(gid)

CleanerSweep == server.rooms = "free" /\ delete_games

BroadcastSnapshot == server.rooms = "free" /\ Broadcast

NextLocks ==
    \/ \E input \in LockInputs : RecvFrom(input)
    \/ PushBack
    \/ \E t \in ServerInstants : IntervalTick(t)
    \/ PopFront
    \/ LockRooms
    \/ LockedProcessInput
    \/ LockedGameTicks
    \/ \E gid \in GameIds : HandlerAddBot(gid)
    \/ CleanerSweep
    \/ BroadcastSnapshot

SpecLocks == InitServer /\ [][NextLocks]_vars

(***************************************************************************)
(* The tasks under fair scheduling.  The interval of the tick task fires   *)
(* again and again (the clock of the model stops after LiveTicks periods,  *)
(* the interval goes on firing); the runtime runs a task that is ready, so *)
(* the tick task takes its next step whenever it can; the tokio Mutex      *)
(* hands the lock to its waiters in the order they asked, so the receiver  *)
(* waiting at lock().await gets the queue between two iterations of the    *)
(* tick task.                                                              *)
(***************************************************************************)
LiveTicks == 3                   \* periods the clock advances

\* The tick task: interval.tick().await returns and the task locks the
\* queue.
IntervalFires ==
    /\ server.pc = "sleep"
    /\ now' = IF now < LiveTicks * TICK_MS THEN now + TICK_MS ELSE now
    /\ server' = [server EXCEPT !.pc = "drain"]
    /\ last' = Answer("lock_queue", "all", NoId, 0, "Ok")
    /\ UNCHANGED <<lobbies, nextId, client>>

\* One step of the tick task.
TickTask ==
    \/ IntervalFires
    \/ PopFront
    \/ LockRooms
    \/ LockedProcessInput
    \/ LockedGameTicks

NextLive ==
    \/ \E input \in LockInputs : RecvFrom(input)
    \/ PushBack
    \/ IntervalFires
    \/ PopFront
    \/ LockRooms
    \/ LockedProcessInput
    \/ LockedGameTicks
    \/ \E gid \in GameIds : HandlerAddBot(gid)
    \/ CleanerSweep
    \/ BroadcastSnapshot

Fairness == WF_vars(TickTask) /\ SF_vars(PushBack)

SpecLive == InitServer /\ [][NextLive]_vars /\ Fairness

(***************************************************************************)
(* Play again: a game that has finished, the players of it still in the    *)
(* map; the clients call restart_game one after the other, in any order    *)
(* with the ticks.  Nobody sends a datagram.                               *)
(***************************************************************************)
AgainStart == 5000               \* the instant of the last tick so far
AgainInstants ==
    {AgainStart + TICK_MS, AgainStart + 2 * TICK_MS, AgainStart + PING_TIMEOUT + 1,
     AgainStart + GAME_DELETE_TIMEOUT + 1}

\* The ids of the players of the game that finished: none that Admit will
\* hand out.
OldIds == {MaxIds + 1, MaxIds + 2}

AgainGames ==
    {[GameNew EXCEPT
        !.state = "Finished",
        !.started_at = 0,
        !.finished_at = finished_at,
        !.players = [p \in ids |->
                        [PlayerNew(PLAYER_NAMES[p - MaxIds], FALSE) EXCEPT
                            !.position = ALL_POSITIONS[p - MaxIds],
                            !.is_ready = TRUE,
                            !.score = IF p = MaxIds + 1 THEN score ELSE 0,
                            !.ping_timestamp = ping]]] :
        finished_at \in {AgainStart - 1, AgainStart},
        ids \in {OldIds, {MaxIds + 1}},
        score \in {0, MAX_SCORE},
        ping \in {NoTime, AgainStart}}

InitAgain ==
    /\ lobbies \in {(CHOOSE g \in GameIds : TRUE) :> game : game \in AgainGames}
    /\ now = AgainStart
    /\ nextId = 0
    /\ last = Answer("none", "none", NoId, 0, "none")
    /\ server = Direct
    /\ client = NoClient

NextAgain ==
    \/ \E gid \in GameIds, username \in Usernames : restart_game(gid, username)
    \/ \E t \in AgainInstants : Tick(t)

SpecAgain == InitAgain /\ [][NextAgain]_vars

(***************************************************************************)
(* A ball about to reach a paddle: four players, the ball one tick away    *)
(* from the paddle line of one side, the paddle of that side where a few   *)
(* MovePaddle have brought it; and a ball in the corner of Top and Left    *)
(* with both paddles there.                                                *)
(***************************************************************************)
HitInstants == {PlayStart + k * TICK_MS : k \in 1..MaxTicks}

\* The ball a paddle at the centre of the opposite side returned straight,
\* 61 ticks later.
Approach(side) ==
    LET far == GAME_SIZE - PADDLE_PADDING - BALL_RADIUS - 61 * BALL_SPEED
        near == PADDLE_PADDING + BALL_RADIUS + 61 * BALL_SPEED
    IN  CASE side = "Top" ->
                [x |-> CENTER, y |-> far, vx |-> 0, vy |-> -BALL_SPEED,
                 last_touched_by |-> 2]
          [] side = "Bottom" ->
                [x |-> CENTER, y |-> near, vx |-> 0, vy |-> BALL_SPEED,
                 last_touched_by |-> 1]
          [] side = "Left" ->
                [x |-> far, y |-> CENTER, vx |-> -BALL_SPEED, vy |-> 0,
                 last_touched_by |-> 3]
          [] side = "Right" ->
                [x |-> near, y |-> CENTER, vx |-> BALL_SPEED, vy |-> 0,
                 last_touched_by |-> 4]

\* Players 1..4 on Top, Bottom, Right, Left, the paddle of one side moved.
FourSeats(side, paddle_position) ==
    [p \in 1..MAX_PLAYERS |->
        Seat(p, ALL_POSITIONS[p], FALSE,
             IF ALL_POSITIONS[p] = side THEN paddle_position ELSE CENTER)]

\* The ball the Bottom paddle sent to the corner of Top and Left, the Top
\* and the Left paddle both moved into that corner.
CornerScene ==
    [players |-> [FourSeats("Top", CENTER - 14 * PADDLE_DELTA) EXCEPT
                     ![4].paddle_position = PADDLE_WIDTH \div 2],
     ball |-> [x |-> 91, y |-> 91, vx |-> -Tangential(3), vy |-> -Normal(3),
               last_touched_by |-> 2],
     scorer |-> 1]

HitScenes ==
    {[players |-> FourSeats(side, CENTER + k * PADDLE_DELTA),
      ball |-> Approach(side),
      scorer |-> 1] : side \in Positions, k \in -2..2}
    \cup {CornerScene}

InitHit ==
    /\ lobbies \in {(CHOOSE g \in GameIds : TRUE)
                        :> PlayGame(scene, 0, [p \in 1..MAX_PLAYERS |-> NoTime]) :
                    scene \in HitScenes}
    /\ now = PlayStart
    /\ nextId = MAX_PLAYERS
    /\ last = Answer("none", "none", NoId, 0, "none")
    /\ server = Direct
    /\ client = NoClient

NextHit ==
    \/ \E gid \in GameIds, direction \in {"MovePaddlePositive", "MovePaddleNegative"},
          addr \in Addrs : process_input(gid, 1, direction, addr)
    \/ \E t \in HitInstants : Tick(t)

SpecHit == InitHit /\ [][NextHit]_vars

(***************************************************************************)
(* A client on the game board of a game in play: the server's snapshots    *)
(* and datagrams of another source reach its socket.                       *)
(***************************************************************************)
\* The game the rogue server of test_invalid_packet_source sends.
BadGame == GameDtoFrom([GameNew EXCEPT !.state = "Finished"])

\* What can arrive: from the server the snapshot of a game as it is, from
\* elsewhere that or anything, from either bytes that are no GameDto.
Arrivals ==
    ({ServerAddr, RogueAddr}
        \X ({Datagram(GameDtoFrom(lobbies[g])) : g \in DOMAIN lobbies} \cup {Garbage}))
    \cup {<<RogueAddr, Datagram(BadGame)>>}

\* The receive task of GameBoard::new: recv_updated_game, and on Ok
\* *current_game = updated_game.
ReceiveUpdate(addr, datagram) ==
    LET result == recv_updated_game(client.server_addr, addr, datagram)
    IN  /\ client' = [client EXCEPT
                         !.game = IF result.err = "Ok" THEN result.game ELSE @,
                         !.from = addr,
                         !.err = result.err]
        /\ last' = Answer("recv_updated_game", "none", NoId, 0, result.err)
        /\ UNCHANGED <<lobbies, now, nextId, server>>

InitClient ==
    /\ lobbies = (CHOOSE g \in GameIds : TRUE) :> PaddleGame
    /\ now = 0
    /\ nextId = 3
    /\ last = Answer("none", "none", NoId, 0, "none")
    /\ server = Direct
    /\ client = ClientNew(ServerAddr, PaddleGame)

NextClient ==
    \/ \E gid \in GameIds, direction \in {"MovePaddlePositive", "MovePaddleNegative"},
          addr \in Addrs : process_input(gid, 1, direction, addr)
    \/ \E t \in PaddleInstants : Tick(t)
    \/ \E arrival \in Arrivals : ReceiveUpdate(arrival[1], arrival[2])

SpecClient == InitClient /\ [][NextClient]_vars

(***************************************************************************)
(* Properties of the session life cycle                                    *)
(***************************************************************************)
PlayerCount(game) == Cardinality(DOMAIN game.players)
AllReady(game) == \A p \in DOMAIN game.players : game.players[p].is_ready

\* C1: every game holds at most MAX_PLAYERS = 4 players after every step,
\* and a step whose add_player returned GameFull was taken on a game that
\* held 4 players and changed no game.
C1_AtMostFourPlayers ==
    [][/\ \A g \in DOMAIN lobbies' : PlayerCount(lobbies'[g]) <= MAX_PLAYERS
       /\ last'.err = "GameFull" =>
            /\ last'.status = 500
            /\ PlayerCount(lobbies[last'.gid]) = MAX_PLAYERS
            /\ lobbies' = lobbies]_vars

C1_Witness ==
    /\ last.err = "GameFull"
    /\ last.op = "join_game"
    /\ PlayerCount(lobbies[last.gid]) = MAX_PLAYERS

\* C2: no two players of one game hold the same position.
C2_DistinctPositions ==
    \A g \in DOMAIN lobbies :
        \A p, q \in DOMAIN lobbies[g].players :
            p # q => lobbies[g].players[p].position # lobbies[g].players[q].position

\* A full game whose Top side was freed by a removal and given out again.
C2_Witness ==
    \E g \in DOMAIN lobbies :
        /\ PlayerCount(lobbies[g]) = MAX_PLAYERS
        /\ \E p \in DOMAIN lobbies[g].players :
              p > 1 /\ lobbies[g].players[p].position = "Top"

\* C3: a game goes from WaitingForPlayers to Active only in a step after
\* which it has at least 2 players, all ready; a PlayerReady whose
\* start_game fails leaves state and started_at as they were, with
\* InvalidStateTransition exactly when the game was not WaitingForPlayers or
\* had fewer than 2 players, and PlayersNotReady only when a player is not
\* ready.
C3_StartOnlyWhenReady ==
    [][\A g \in DOMAIN lobbies \cap DOMAIN lobbies' :
          LET old == lobbies[g]
              new == lobbies'[g]
          IN  /\ (old.state = "WaitingForPlayers" /\ new.state = "Active") =>
                    /\ PlayerCount(new) >= 2
                    /\ AllReady(new)
                    /\ new.started_at = now'
              /\ (/\ last'.op = "PlayerReady"
                  /\ last'.gid = g
                  /\ last'.err \in {"InvalidStateTransition", "PlayersNotReady"}) =>
                    /\ new.state = old.state
                    /\ new.started_at = old.started_at
                    /\ (last'.err = "InvalidStateTransition") <=>
                          (old.state # "WaitingForPlayers" \/ PlayerCount(old) < 2)
                    /\ (last'.err = "PlayersNotReady") => ~AllReady(new)]_vars

C3_Witness ==
    /\ last.op = "PlayerReady"
    /\ last.err = "Ok"
    /\ last.gid \in DOMAIN lobbies
    /\ lobbies[last.gid].state = "Active"
    /\ lobbies[last.gid].started_at = now
    /\ PlayerCount(lobbies[last.gid]) >= 2

\* C7: finished_at is set exactly when the game is Finished.
C7_FinishedAtIffFinished ==
    \A g \in DOMAIN lobbies :
        (lobbies[g].finished_at # NoTime) <=> (lobbies[g].state = "Finished")

\* A game that was played and has just finished.
C7_Witness ==
    \E g \in DOMAIN lobbies :
        /\ lobbies[g].state = "Finished"
        /\ lobbies[g].started_at # NoTime
        /\ lobbies[g].finished_at = now

\* C8: a game that is Active, Paused or Finished has started_at set.
C8_StartedAtSet ==
    \A g \in DOMAIN lobbies :
        lobbies[g].state \in {"Active", "Paused", "Finished"} =>
            lobbies[g].started_at # NoTime

\* C10: join_game answers 400 for a malformed id, 404 for an unknown game,
\* 400 for a game that is not WaitingForPlayers, 500 for a waiting game that
\* already has 4 players and 200 otherwise; restart_game answers 400 on an
\* Active or Paused game; and a step that answers either of them with a
\* status other than 200 changes no game.
C10_RejectedJoinMutatesNothing ==
    [][LET a == last'
       IN  /\ a.op = "join_game" =>
                /\ a.status =
                     IF ~IsUuid(a.gid) THEN 400
                     ELSE IF a.gid \notin DOMAIN lobbies THEN 404
                     ELSE IF lobbies[a.gid].state # "WaitingForPlayers" THEN 400
                     ELSE IF PlayerCount(lobbies[a.gid]) >= MAX_PLAYERS THEN 500
                     ELSE 200
                /\ a.status # 200 => lobbies' = lobbies
           /\ a.op = "restart_game" =>
                /\ (/\ a.gid \in DOMAIN lobbies
                    /\ lobbies[a.gid].state \in {"Active", "Paused"}) => a.status = 400
                /\ a.status # 200 => lobbies' = lobbies]_vars

\* A join refused on a game that is being played.
C10_Witness ==
    /\ last.op = "join_game"
    /\ last.status = 400
    /\ last.gid \in DOMAIN lobbies
    /\ lobbies[last.gid].state = "Active"
    /\ PlayerCount(lobbies[last.gid]) < MAX_PLAYERS

(***************************************************************************)
(* Properties of the rally                                                 *)
(***************************************************************************)
\* The side on which the tick that leads from old to new registers a goal,
\* NoPos when it registers none.
GoalSide(old, new) ==
    IF new.last_goal_at = now' /\ last'.op = "tick"
    THEN is_goal(ReflectEmpty(new.players, update_position(old.ball)))
    ELSE NoPos

\* C4: in a tick that registers a goal on a side, the player named by the
\* ball's last_touched_by gains exactly 1 point if that player does not
\* occupy the goal side, and every other score, that of a player on the
\* goal side included, stays as it was; with last_touched_by unset no
\* score changes.
C4_OnlyLastToucherScores ==
    [][\A g \in DOMAIN lobbies \cap DOMAIN lobbies' :
          LET old  == lobbies[g]
              new  == lobbies'[g]
              side == GoalSide(old, new)
              ltb  == old.ball.last_touched_by
          IN  side # NoPos =>
                \A p \in DOMAIN new.players :
                    new.players[p].score =
                        IF p = ltb /\ old.players[p].position # side
                        THEN old.players[p].score + 1
                        ELSE old.players[p].score]_vars

\* A goal on the Left side by the player on the Right, with the player on
\* the Left still in the game.
C4_Witness ==
    /\ last.op = "tick"
    /\ \E g \in DOMAIN lobbies :
          /\ lobbies[g].last_goal_at = now
          /\ lobbies[g].state = "Active"
          /\ \E p, q \in DOMAIN lobbies[g].players :
                /\ lobbies[g].players[p].position = "Right"
                /\ lobbies[g].players[p].score = 1
                /\ lobbies[g].players[q].position = "Left"
                /\ lobbies[g].players[q].score = 0

\* C5: no score exceeds MAX_SCORE = 10; a tick in which a score reaches 10
\* leaves the game Finished with finished_at set to the instant of the
\* tick; and no tick leaves a game Active with a player whose score is 10.
C5_FinishedAtMaxScore ==
    [][\A g \in DOMAIN lobbies \cap DOMAIN lobbies' :
          LET old == lobbies[g]
              new == lobbies'[g]
          IN  /\ \A p \in DOMAIN new.players : new.players[p].score <= MAX_SCORE
              /\ last'.op = "tick" =>
                    /\ (\E p \in DOMAIN new.players :
                           /\ new.players[p].score = MAX_SCORE
                           /\ old.players[p].score < MAX_SCORE) =>
                          /\ new.state = "Finished"
                          /\ new.finished_at = now'
                    /\ ~(/\ new.state = "Active"
                         /\ \E p \in DOMAIN new.players :
                               new.players[p].score >= MAX_SCORE)]_vars

\* A game the tenth point has just finished, two humans still in it.
C5_Witness ==
    /\ last.op = "tick"
    /\ \E g \in DOMAIN lobbies :
          /\ lobbies[g].state = "Finished"
          /\ lobbies[g].finished_at = now
          /\ lobbies[g].last_goal_at = now
          /\ Cardinality(Humans(lobbies[g])) >= 2
          /\ \E p \in DOMAIN lobbies[g].players :
                lobbies[g].players[p].score = MAX_SCORE

\* C6: a tick of a game that is not Finished removes every player whose
\* ping_timestamp is more than PING_TIMEOUT = 2000 ms before the tick; and
\* a tick or a Disconnect that removes a player and leaves fewer than 2
\* non-AI players leaves the game Finished with finished_at set to the
\* instant of that step.
C6_TimeoutsRemoveAndFinish ==
    [][\A g \in DOMAIN lobbies \cap DOMAIN lobbies' :
          LET old == lobbies[g]
              new == lobbies'[g]
          IN  /\ (last'.op = "tick" /\ old.state # "Finished") =>
                    \A p \in DOMAIN old.players :
                        (/\ old.players[p].ping_timestamp # NoTime
                         /\ now' - old.players[p].ping_timestamp > PING_TIMEOUT)
                            => p \notin DOMAIN new.players
              /\ (/\ last'.op \in {"tick", "Disconnect"}
                  /\ DOMAIN new.players # DOMAIN old.players
                  /\ Cardinality(Humans(new)) < 2) =>
                    /\ new.state = "Finished"
                    /\ new.finished_at = now']_vars

\* A tick has removed the players whose ping was 2001 ms old, kept one
\* whose ping was 2000 ms old, and finished the game.
C6_Witness ==
    /\ last.op = "tick"
    /\ \E g \in DOMAIN lobbies :
          /\ lobbies[g].state = "Finished"
          /\ lobbies[g].finished_at = now
          /\ lobbies[g].last_goal_at = NoTime
          /\ Cardinality(Humans(lobbies[g])) = 1
          /\ \E p \in Humans(lobbies[g]) :
                now - lobbies[g].players[p].ping_timestamp = PING_TIMEOUT

(***************************************************************************)
(* Properties of the paddles                                               *)
(***************************************************************************)
PaddleMin == 0 + PADDLE_WIDTH \div 2
PaddleMax == GAME_SIZE - PADDLE_WIDTH \div 2

\* C9: after every step every paddle_position lies between paddle_width / 2
\* and 10 - paddle_width / 2, and a MovePaddle(Negative) for a player at the
\* lower bound, or a MovePaddle(Positive) for a player at the upper bound,
\* leaves that player's paddle_position as it was.
C9_PaddleWithinCourt ==
    [][\A g \in DOMAIN lobbies \cap DOMAIN lobbies' :
          LET old == lobbies[g]
              new == lobbies'[g]
          IN  \A p \in DOMAIN new.players :
                /\ new.players[p].paddle_position >= PaddleMin
                /\ new.players[p].paddle_position <= PaddleMax
                /\ (/\ p \in DOMAIN old.players
                    /\ last'.pid = p
                    /\ \/ /\ last'.op = "MovePaddleNegative"
                          /\ old.players[p].paddle_position = PaddleMin
                       \/ /\ last'.op = "MovePaddlePositive"
                          /\ old.players[p].paddle_position = PaddleMax) =>
                      new.players[p].paddle_position = old.players[p].paddle_position]_vars

\* A MovePaddle(Negative) served for the bot, whose paddle is at the lower
\* bound, while the human's paddle is at the upper bound.
C9_Witness ==
    /\ last.op = "MovePaddleNegative"
    /\ last.err = "Ok"
    /\ \E g \in DOMAIN lobbies :
          /\ last.pid \in DOMAIN lobbies[g].players
          /\ lobbies[g].players[last.pid].is_ai
          /\ lobbies[g].players[last.pid].paddle_position = PaddleMin
          /\ \E q \in Humans(lobbies[g]) :
                lobbies[g].players[q].paddle_position = PaddleMax

(***************************************************************************)
(* Properties of admission and restart                                     *)
(***************************************************************************)
\* C11: an add_bot request on a game that is not WaitingForPlayers is
\* refused and changes no game.
C11_AddBotOnlyWhileWaiting ==
    [][(/\ last'.op = "add_bot"
        /\ last'.gid \in DOMAIN lobbies
        /\ lobbies[last'.gid].state # "WaitingForPlayers") =>
            /\ last'.status # 200
            /\ lobbies' = lobbies]_vars

\* C12: play_again on a Finished game answers 200 and leaves the game
\* WaitingForPlayers with started_at and finished_at unset and exactly one
\* player, the caller, who was not in the game before, has score 0 and
\* holds the first position of the canonical order.
C12_PlayAgainResetsGame ==
    [][(/\ last'.op = "restart_game"
        /\ last'.gid \in DOMAIN lobbies
        /\ lobbies[last'.gid].state = "Finished") =>
            LET old == lobbies[last'.gid]
                new == lobbies'[last'.gid]
            IN  /\ last'.status = 200
                /\ new.state = "WaitingForPlayers"
                /\ new.started_at = NoTime
                /\ new.finished_at = NoTime
                /\ DOMAIN new.players = {last'.pid}
                /\ last'.pid \notin DOMAIN old.players
                /\ new.players[last'.pid].score = 0
                /\ ~new.players[last'.pid].is_ai
                /\ new.players[last'.pid].position = ALL_POSITIONS[1]]_vars

\* A game that was played (its ball has left the centre), finished, and
\* has been restarted by play_again.
C12_Witness ==
    /\ last.op = "restart_game"
    /\ last.status = 200
    /\ last.gid \in DOMAIN lobbies
    /\ lobbies[last.gid].state = "WaitingForPlayers"
    /\ lobbies[last.gid].ball.y # CENTER
    /\ DOMAIN lobbies[last.gid].players = {last.pid}

\* C13: after play_again on a Finished game the ball is at (5,5) and its
\* last_touched_by is unset.
C13_PlayAgainResetsBall ==
    [][(/\ last'.op = "restart_game"
        /\ last'.gid \in DOMAIN lobbies
        /\ lobbies[last'.gid].state = "Finished") =>
            LET ball == lobbies'[last'.gid].ball
            IN  /\ ball.x = CENTER
                /\ ball.y = CENTER
                /\ ball.last_touched_by = NoId]_vars

(***************************************************************************)
(* Properties of the sweep                                                 *)
(***************************************************************************)
\* C14: a step of delete_games removes exactly the games whose finished_at
\* is set and more than 60000 ms before the sweep, so it keeps every game
\* that is not Finished and every game that finished 60000 ms ago or less;
\* and no other step removes a game.
C14_SweepRemovesOldFinished ==
    [][IF last'.op = "delete_games"
       THEN /\ DOMAIN lobbies' =
                 {g \in DOMAIN lobbies :
                     ~(/\ lobbies[g].finished_at # NoTime
                       /\ now - lobbies[g].finished_at > GAME_DELETE_TIMEOUT)}
            /\ \A g \in DOMAIN lobbies' : lobbies'[g] = lobbies[g]
            /\ \A g \in DOMAIN lobbies :
                  lobbies[g].state # "Finished" => g \in DOMAIN lobbies'
       ELSE DOMAIN lobbies \subseteq DOMAIN lobbies']_vars

\* A sweep has removed a game that finished 60001 ms before it and kept one
\* that finished 60000 ms before it.
C14_Witness ==
    /\ last.op = "delete_games"
    /\ Cardinality(DOMAIN lobbies) = 1
    /\ \E g \in DOMAIN lobbies :
          /\ lobbies[g].state = "Finished"
          /\ now - lobbies[g].finished_at = GAME_DELETE_TIMEOUT

(***************************************************************************)
(* Properties of the score                                                 *)
(***************************************************************************)
\* C15: from one state to the next the score of a player who stays in the
\* game does not decrease; and play_again on a Finished game keeps none of
\* the previous players: the only player afterwards is new, with score 0.
C15_ScoreNeverDecreases ==
    [][\A g \in DOMAIN lobbies \cap DOMAIN lobbies' :
          LET old == lobbies[g]
              new == lobbies'[g]
          IN  /\ \A p \in DOMAIN old.players \cap DOMAIN new.players :
                    new.players[p].score >= old.players[p].score
              /\ \A p \in DOMAIN new.players \ DOMAIN old.players :
                    /\ new.players[p].score = 0
                    /\ last'.op \in {"restart_game", "join_game", "add_bot"}
              /\ (last'.op = "restart_game" /\ old.state = "Finished") =>
                    DOMAIN old.players \cap DOMAIN new.players = {}]_vars

\* play_again after a game in which a goal was registered: the game holds
\* only the caller, with score 0.
C15_Witness ==
    /\ last.op = "restart_game"
    /\ last.status = 200
    /\ \E g \in DOMAIN lobbies :
          /\ lobbies[g].last_goal_at # NoTime
          /\ DOMAIN lobbies[g].players = {last.pid}
          /\ lobbies[g].players[last.pid].score = 0

(***************************************************************************)
(* Properties of the datagram inputs                                       *)
(***************************************************************************)
\* C16: a MovePaddle input for a game that is not Active is dropped and
\* leaves the game, and so every paddle_position, as it was; a MovePaddle
\* input changes a paddle_position only in a game that is Active.
C16_MovePaddleOnlyWhenActive ==
    [][\A g \in DOMAIN lobbies \cap DOMAIN lobbies' :
          LET old == lobbies[g]
              new == lobbies'[g]
          IN  (IsMovePaddle(last'.op) /\ last'.gid = g) =>
                /\ old.state # "Active" =>
                      /\ last'.err = "Dropped"
                      /\ DOMAIN new.players = DOMAIN old.players
                      /\ \A p \in DOMAIN old.players :
                            new.players[p].paddle_position =
                                old.players[p].paddle_position
                /\ (\E p \in DOMAIN old.players \cap DOMAIN new.players :
                       new.players[p].paddle_position #
                           old.players[p].paddle_position) =>
                      old.state = "Active"]_vars

\* A MovePaddle dropped for a player of a Paused game who had moved the
\* paddle while the game was Active.
C16_Witness ==
    /\ IsMovePaddle(last.op)
    /\ last.err = "Dropped"
    /\ last.gid \in DOMAIN lobbies
    /\ lobbies[last.gid].state = "Paused"
    /\ last.pid \in DOMAIN lobbies[last.gid].players
    /\ lobbies[last.gid].players[last.pid].paddle_position # CENTER

\* C17: a datagram whose game_id or player_id is not a UUID, whose game_id
\* names no game, or whose player_id names no player of that game is
\* dropped: the step changes no game and no player.
C17_BadDatagramsDropped ==
    [][LET a == last'
       IN  (/\ a.op \in Actions
            /\ \/ ~IsUuid(a.gid)
               \/ a.pid = BadPlayer
               \/ a.gid \notin DOMAIN lobbies
               \/ a.pid \notin DOMAIN lobbies[a.gid].players) =>
                /\ a.err = "Dropped"
                /\ lobbies' = lobbies
                /\ nextId' = nextId
                /\ now' = now]_vars

\* A datagram dropped because the game it names, which has players, does
\* not hold the player it names.
C17_Witness ==
    /\ last.op \in Actions
    /\ last.err = "Dropped"
    /\ last.gid \in DOMAIN lobbies
    /\ last.pid # BadPlayer
    /\ last.pid \notin DOMAIN lobbies[last.gid].players
    /\ PlayerCount(lobbies[last.gid]) >= 1

(***************************************************************************)
(* Properties of the ball after a goal                                     *)
(***************************************************************************)
\* C18: a tick of an Active game that runs less than GOAL_TIMEOUT = 750 ms
\* after last_goal_at leaves the ball at (5,5) with the velocity it had,
\* and leaves last_goal_at and every remaining player (paddle and score)
\* as they were: no AI step, no goal, no collision.  A tick that runs 750
\* ms after the goal or later, and leaves the game Active, moves the ball
\* by its velocity.
C18_PauseAfterGoal ==
    [][last'.op = "tick" =>
        \A g \in DOMAIN lobbies \cap DOMAIN lobbies' :
          LET old == lobbies[g]
              new == lobbies'[g]
          IN  (old.state = "Active" /\ old.last_goal_at # NoTime) =>
                /\ now' - old.last_goal_at < GOAL_TIMEOUT =>
                      /\ new.ball = old.ball
                      /\ new.ball.x = CENTER
                      /\ new.ball.y = CENTER
                      /\ new.last_goal_at = old.last_goal_at
                      /\ \A p \in DOMAIN new.players :
                            new.players[p] = old.players[p]
                /\ (/\ now' - old.last_goal_at >= GOAL_TIMEOUT
                    /\ new.state = "Active") =>
                      /\ new.ball.x = old.ball.x + old.ball.vx
                      /\ new.ball.y = old.ball.y + old.ball.vy]_vars

\* A tick 749 ms after a goal in a game with a bot: the game is Active and
\* the ball rests at the centre.
C18_Witness ==
    /\ last.op = "tick"
    /\ \E g \in DOMAIN lobbies :
          /\ lobbies[g].state = "Active"
          /\ lobbies[g].last_goal_at # NoTime
          /\ now - lobbies[g].last_goal_at = GOAL_TIMEOUT - 1
          /\ lobbies[g].ball.x = CENTER
          /\ lobbies[g].ball.y = CENTER
          /\ \E p \in DOMAIN lobbies[g].players : lobbies[g].players[p].is_ai

\* C19: at the end of a tick that registers a goal and resets the ball, the
\* ball is at (5,5), its velocity is 0.125 along exactly one axis and 0
\* along the other, and its last_touched_by is unset.
C19_BallAfterReset ==
    [][\A g \in DOMAIN lobbies \cap DOMAIN lobbies' :
          LET ball == lobbies'[g].ball
          IN  GoalSide(lobbies[g], lobbies'[g]) # NoPos =>
                /\ ball.x = CENTER
                /\ ball.y = CENTER
                /\ \/ Abs(ball.vx) = INITIAL_SPEED /\ ball.vy = 0
                   \/ ball.vx = 0 /\ Abs(ball.vy) = INITIAL_SPEED
                /\ ball.last_touched_by = NoId]_vars

\* A goal by the player on the Right has been registered and the ball
\* served along the x axis.
C19_Witness ==
    /\ last.op = "tick"
    /\ \E g \in DOMAIN lobbies :
          /\ lobbies[g].last_goal_at = now
          /\ lobbies[g].ball.vy = 0
          /\ Abs(lobbies[g].ball.vx) = INITIAL_SPEED
          /\ \E p \in DOMAIN lobbies[g].players :
                lobbies[g].players[p].score = 1

\* The side a ball flies to: Ball::is_goal puts Top at y < 0, Bottom at
\* y > 10, Left at x < 0 and Right at x > 10.
Heading(ball) ==
    IF ball.vy < 0 THEN "Top"
    ELSE IF ball.vy > 0 THEN "Bottom"
    ELSE IF ball.vx < 0 THEN "Left"
    ELSE IF ball.vx > 0 THEN "Right"
    ELSE NoPos

\* C20: at the end of a tick that registers a goal and resets the ball, the
\* ball's velocity points to a side held by a player of the game.
C20_ServeTowardsPlayer ==
    [][\A g \in DOMAIN lobbies \cap DOMAIN lobbies' :
          GoalSide(lobbies[g], lobbies'[g]) # NoPos =>
              \E p \in DOMAIN lobbies'[g].players :
                  lobbies'[g].players[p].position = Heading(lobbies'[g].ball)]_vars

(***************************************************************************)
(* Properties of the walls                                                 *)
(***************************************************************************)
Held(players) == {players[p].position : p \in DOMAIN players}

\* The ball's leading edge is beyond the line of a side.
Crosses(ball, side) ==
    CASE side = "Top"    -> ball.y - BALL_RADIUS < 0
      [] side = "Bottom" -> ball.y + BALL_RADIUS > GAME_SIZE
      [] side = "Left"   -> ball.x - BALL_RADIUS < 0
      [] side = "Right"  -> ball.x + BALL_RADIUS > GAME_SIZE

\* The ball moved by its velocity, then put back on the line of every side
\* it crosses that nobody holds, the velocity component across that side
\* inverted.
Bounced(ball, held) ==
    LET x == ball.x + ball.vx
        y == ball.y + ball.vy
        m == [ball EXCEPT !.x = x, !.y = y]
        off(side) == side \notin held /\ Crosses(m, side)
    IN  [x |-> IF off("Left") THEN BALL_RADIUS
               ELSE IF off("Right") THEN GAME_SIZE - BALL_RADIUS ELSE x,
         y |-> IF off("Top") THEN BALL_RADIUS
               ELSE IF off("Bottom") THEN GAME_SIZE - BALL_RADIUS ELSE y,
         vx |-> IF off("Left") \/ off("Right") THEN -ball.vx ELSE ball.vx,
         vy |-> IF off("Top") \/ off("Bottom") THEN -ball.vy ELSE ball.vy,
         last_touched_by |-> ball.last_touched_by]

NoPaddleHit(players, ball) ==
    \A p \in DOMAIN players : PaddleCollision(ball, p, players[p]) = ball

\* C21: a tick registers a goal (sets last_goal_at) only when the moved
\* ball crosses a side that a player holds, and then at most one player
\* gains a point, and only one; a tick of the physics that registers no
\* goal while the moved ball crosses a side nobody holds changes no score
\* and, unless a paddle is hit in the same tick, leaves the ball on the
\* line of each such side (both, in a corner) with the velocity component
\* across it inverted and last_touched_by as it was.
C21_GoalsOnlyOnHeldSides ==
    [][last'.op = "tick" =>
        \A g \in DOMAIN lobbies \cap DOMAIN lobbies' :
          LET old   == lobbies[g]
              new   == lobbies'[g]
              held  == Held(new.players)
              moved == [old.ball EXCEPT !.x = @ + old.ball.vx,
                                        !.y = @ + old.ball.vy]
              goal  == new.last_goal_at = now'
              ran   == /\ old.state = "Active"
                       /\ new.state = "Active"
                       /\ \/ old.last_goal_at = NoTime
                          \/ now' - old.last_goal_at >= GOAL_TIMEOUT
          IN  /\ goal =>
                    /\ \E side \in held : Crosses(moved, side)
                    /\ \A p, q \in DOMAIN new.players :
                          /\ new.players[p].score <= old.players[p].score + 1
                          /\ (p # q /\ new.players[p].score > old.players[p].score)
                                => new.players[q].score = old.players[q].score
              /\ (/\ ran
                  /\ ~goal
                  /\ \E side \in Positions \ held : Crosses(moved, side)) =>
                    /\ new.last_goal_at = old.last_goal_at
                    /\ \A p \in DOMAIN new.players :
                          new.players[p].score = old.players[p].score
                    /\ NoPaddleHit(new.players, Bounced(old.ball, held)) =>
                          new.ball = Bounced(old.ball, held)]_vars

\* The ball has come back off the corner of two sides nobody holds.
C21_Witness ==
    /\ last.op = "tick"
    /\ \E g \in DOMAIN lobbies :
          /\ lobbies[g].state = "Active"
          /\ lobbies[g].last_goal_at = NoTime
          /\ Held(lobbies[g].players) \cap {"Left", "Bottom"} = {}
          /\ lobbies[g].ball.x = BALL_RADIUS
          /\ lobbies[g].ball.y = GAME_SIZE - BALL_RADIUS
          /\ lobbies[g].ball.vx > 0
          /\ lobbies[g].ball.vy < 0
          /\ lobbies[g].ball.last_touched_by = 1

(***************************************************************************)
(* Properties of the tasks                                                 *)
(***************************************************************************)
\* C22: of two inputs of one player that process_input has returned from,
\* the one the receiver read first (the lower seq, the one it pushed
\* first) was processed first, whether in one drain or in two.
C22_InputsInOrder ==
    \A i, j \in 1..Len(server.applied) :
        (i < j /\ server.applied[i].pid = server.applied[j].pid)
            => server.applied[i].seq < server.applied[j].seq

\* Three inputs of player 1 have been processed, the last of them a Ping in
\* the second drain.
C22_Witness ==
    /\ Len(server.applied) = 3
    /\ \A i \in 1..3 : server.applied[i].pid = 1
    /\ now = 2 * TICK_MS
    /\ last.op = "Ping"
    /\ server.pc = "drain"
    /\ server.queue = <<>>

\* C23: when the tick task is through the drain and about to run
\* game_tick, the queue is empty and every input popped has been
\* processed, and the queue stays empty until the physics has run: the
\* receiver pushes nothing meanwhile.
C23_DrainBeforePhysics ==
    [][server.pc = "game_tick" =>
            /\ server.queue = <<>>
            /\ server.current = NoInput
            /\ server'.queue = <<>>]_vars

\* The drain processed an input; the receiver holds the next one and waits
\* while the physics is about to run.
C23_Witness ==
    /\ server.pc = "game_tick"
    /\ server.dirty
    /\ server.pending # NoInput
    /\ Len(server.applied) >= 1


\* C24: when the tick task has applied an input of a drain, nothing but
\* the tick task touches or reads the games until the physics of that
\* iteration has run: the step after the application is no control-plane
\* handler, no sweep of the cleaner, no snapshot of the broadcast task.
C24_TickUnderOneLock ==
    [][(server.dirty /\ last.op \in ServerActions /\ last.err = "Ok") =>
          last'.op \notin {"add_bot", "remove_bot", "delete_games", "broadcast"}]_vars


\* C25: the tick task is at no await (of the GameRooms lock, of the
\* interval) while it holds the guard of the input queue; the sections
\* under the GameRooms lock are single steps and hold no await.
C25_NoAwaitUnderLock == queue_locked(server) => Awaits(server) = "none"


\* C26, as claimed: when process_input has applied a datagram of a player,
\* whatever its action, that player has an addr.
C26_AddrFromAnyDatagram ==
    (/\ last.op \in ServerActions
     /\ last.err = "Ok"
     /\ last.gid \in DOMAIN lobbies
     /\ last.pid \in DOMAIN lobbies[last.gid].players)
        => lobbies[last.gid].players[last.pid].addr # NoAddr

\* C26, amended: a player's addr changes only when process_input applies a
\* JoinGame of that player, which it does only while the game is
\* WaitingForPlayers, and it becomes the sender's address; every JoinGame
\* applied sets it; a player admitted has none; the broadcast task sends to
\* the players that have an addr and to no other.
C26_AddrFromJoinGame ==
    [][/\ \A g \in DOMAIN lobbies \cap DOMAIN lobbies' :
            \A p \in DOMAIN lobbies'[g].players :
                IF p \in DOMAIN lobbies[g].players
                THEN /\ lobbies'[g].players[p].addr # lobbies[g].players[p].addr =>
                            /\ last'.op = "JoinGame"
                            /\ last'.err = "Ok"
                            /\ last'.gid = g
                            /\ last'.pid = p
                            /\ lobbies[g].state = "WaitingForPlayers"
                     /\ (/\ last'.op = "JoinGame"
                         /\ last'.err = "Ok"
                         /\ last'.gid = g
                         /\ last'.pid = p) =>
                            /\ server.current.action = "JoinGame"
                            /\ lobbies'[g].players[p].addr = server.current.addr
                ELSE lobbies'[g].players[p].addr = NoAddr
       /\ last'.op = "broadcast" =>
            \A g \in DOMAIN lobbies : \A p \in DOMAIN lobbies[g].players :
                p \in server'.sent <=> lobbies[g].players[p].addr # NoAddr]_vars

\* Player 1's Ping and player 2's JoinGame have been processed; the
\* broadcast sends to player 2 alone.
C26_Witness ==
    /\ last.op = "broadcast"
    /\ server.sent = {2}
    /\ \E i \in 1..Len(server.applied) : server.applied[i].pid = 1
    /\ \A g \in DOMAIN lobbies :
          /\ 1 \in DOMAIN lobbies[g].players
          /\ lobbies[g].players[1].addr = NoAddr
          /\ lobbies[g].players[1].ping_timestamp # NoTime


(***************************************************************************)
(* Properties of the admission and of remove_bot                           *)
(***************************************************************************)
FirstFree(held) ==
    IF "Top" \notin held THEN "Top"
    ELSE IF "Bottom" \notin held THEN "Bottom"
    ELSE IF "Right" \notin held THEN "Right"
    ELSE IF "Left" \notin held THEN "Left"
    ELSE NoPos

\* C27: on every game, assign_position is the first of Top, Bottom, Right,
\* Left that no player of the game holds, and None exactly when the four
\* are held; the player join_game or add_bot admits holds the first side
\* that was free in the game before: Top in an empty game, Bottom when Top
\* alone was held, a freed side when it comes before every other free one.
C27_FirstFreeSide ==
    [][\A g \in DOMAIN lobbies' :
          /\ assign_position(lobbies'[g]) = FirstFree(Held(lobbies'[g].players))
          /\ assign_position(lobbies'[g]) = NoPos
                <=> Held(lobbies'[g].players) = Positions
          /\ (/\ last'.op \in {"join_game", "add_bot"}
              /\ last'.status = 200
              /\ last'.gid = g
              /\ g \in DOMAIN lobbies
              /\ last'.pid \notin DOMAIN lobbies[g].players) =>
                /\ last'.pid \in DOMAIN lobbies'[g].players
                /\ lobbies'[g].players[last'.pid].position
                        = FirstFree(Held(lobbies[g].players))
                /\ PlayerCount(lobbies[g]) = 0 =>
                        lobbies'[g].players[last'.pid].position = "Top"
                /\ Held(lobbies[g].players) = {"Top"} =>
                        lobbies'[g].players[last'.pid].position = "Bottom"]_vars

\* The player just admitted holds Top, which a removal had freed, while
\* an earlier player holds Right and Left has never been held.
C27_Witness ==
    /\ last.op \in {"join_game", "add_bot"}
    /\ last.status = 200
    /\ last.gid \in DOMAIN lobbies
    /\ LET game == lobbies[last.gid]
       IN  /\ last.pid \in DOMAIN game.players
           /\ game.players[last.pid].position = "Top"
           /\ \E p \in DOMAIN game.players :
                 p < last.pid /\ game.players[p].position = "Right"
           /\ "Left" \notin Held(game.players)


Bots(game) == {p \in DOMAIN game.players : game.players[p].is_ai}

\* C28: remove_bot on a game that has an AI player answers 200 and the
\* game loses exactly one player, an AI, every other player staying as it
\* was; on a game with no AI player it answers 400 and on an unknown game
\* id 404, and in both cases no game changes.
C28_RemoveBot ==
    [][last'.op = "remove_bot" /\ IsUuid(last'.gid) =>
          LET g == last'.gid
          IN  IF g \notin DOMAIN lobbies
              THEN last'.status = 404 /\ lobbies' = lobbies
              ELSE IF Bots(lobbies[g]) = {}
              THEN last'.status = 400 /\ lobbies' = lobbies
              ELSE /\ last'.status = 200
                   /\ DOMAIN lobbies' = DOMAIN lobbies
                   /\ \A h \in DOMAIN lobbies \ {g} : lobbies'[h] = lobbies[h]
                   /\ \E bot \in Bots(lobbies[g]) :
                         /\ DOMAIN lobbies'[g].players
                                = DOMAIN lobbies[g].players \ {bot}
                         /\ \A p \in DOMAIN lobbies'[g].players :
                                lobbies'[g].players[p] = lobbies[g].players[p]
                   /\ Humans(lobbies'[g]) = Humans(lobbies[g])]_vars

\* remove_bot has taken one of two bots out of a game that keeps its two
\* humans and the other bot.
C28_Witness ==
    /\ last.op = "remove_bot"
    /\ last.status = 200
    /\ last.gid \in DOMAIN lobbies
    /\ last.pid \notin DOMAIN lobbies[last.gid].players
    /\ Cardinality(Bots(lobbies[last.gid])) = 1
    /\ Cardinality(Humans(lobbies[last.gid])) = 2


(***************************************************************************)
(* Properties of the client                                                *)
(***************************************************************************)
\* C29: the client replaces its game only by the game of a datagram that
\* came from the server address it was created with; for a datagram from
\* any other source recv_updated_game returns InvalidSource, whatever the
\* datagram holds, and the client's game stays as it was.
C29_OnlyServerSnapshots ==
    [][last'.op = "recv_updated_game" =>
          /\ client'.from # client.server_addr =>
                /\ client'.err = "InvalidSource"
                /\ client'.game = client.game
          /\ client'.game # client.game =>
                /\ client'.from = client.server_addr
                /\ client'.err = "Ok"
          /\ client'.server_addr = client.server_addr]_vars

\* The game has moved on at the server; a datagram of another source has
\* been refused and the client still shows the game as it was created.
C29_Witness ==
    /\ last.op = "recv_updated_game"
    /\ client.from = RogueAddr
    /\ client.err = "InvalidSource"
    /\ client.game = GameDtoFrom(PaddleGame)
    /\ \A g \in DOMAIN lobbies : GameDtoFrom(lobbies[g]) # client.game


(***************************************************************************)
(* Properties of the paddles' returns                                      *)
(***************************************************************************)
\* The velocity component across a side points away from it.
Inward(ball, side) ==
    CASE side = "Top"    -> ball.vy > 0
      [] side = "Bottom" -> ball.vy < 0
      [] side = "Left"   -> ball.vx > 0
      [] side = "Right"  -> ball.vx < 0

\* The ball is one radius off the paddle line of a side, towards the court.
OffPaddleLine(ball, side) ==
    CASE side = "Top"    -> ball.y = PADDLE_PADDING + BALL_RADIUS
      [] side = "Bottom" -> ball.y = GAME_SIZE - PADDLE_PADDING - BALL_RADIUS
      [] side = "Left"   -> ball.x = PADDLE_PADDING + BALL_RADIUS
      [] side = "Right"  -> ball.x = GAME_SIZE - PADDLE_PADDING - BALL_RADIUS

\* C30: in a tick of the physics with no goal, whatever the order in which
\* check_collision visits the players, every player whose arm of the match
\* changes the ball leaves it with the velocity component across that
\* player's side pointing into the court, one radius off that player's
\* paddle line, and last_touched_by that player; and when the tick has
\* changed last_touched_by to a player, the ball of the game afterwards is
\* so for that player.
C30_PaddleReturnsInward ==
    [][last'.op = "tick" =>
        \A g \in DOMAIN lobbies \cap DOMAIN lobbies' :
          LET old == lobbies[g]
              new == lobbies'[g]
              b   == Bounced(old.ball, Held(new.players))
              ran == /\ old.state = "Active"
                     /\ new.state = "Active"
                     /\ new.last_goal_at = old.last_goal_at
                     /\ \/ old.last_goal_at = NoTime
                        \/ now' - old.last_goal_at >= GOAL_TIMEOUT
              safe == /\ b.x > SAFE_DISTANCE /\ b.x < GAME_SIZE - SAFE_DISTANCE
                      /\ b.y > SAFE_DISTANCE /\ b.y < GAME_SIZE - SAFE_DISTANCE
          IN  ran =>
                /\ ~safe =>
                     \A o \in Orders(DOMAIN new.players) :
                        \A i \in 1..Cardinality(DOMAIN new.players) :
                           LET before == CollideInOrder(b, new.players,
                                                        SubSeq(o, 1, i - 1), 1)
                               after  == PaddleCollision(before, o[i],
                                                         new.players[o[i]])
                               side   == new.players[o[i]].position
                           IN  after # before =>
                                    /\ Inward(after, side)
                                    /\ OffPaddleLine(after, side)
                                    /\ after.last_touched_by = o[i]
                /\ (/\ new.ball.last_touched_by # old.ball.last_touched_by
                    /\ new.ball.last_touched_by # NoId) =>
                        LET p == new.ball.last_touched_by
                        IN  /\ ~safe
                            /\ p \in DOMAIN new.players
                            /\ Inward(new.ball, new.players[p].position)
                            /\ OffPaddleLine(new.ball, new.players[p].position)]_vars

\* In the corner the Top paddle and then the Left paddle have returned
\* the ball in one tick: it is off both paddle lines, flies away from
\* Left, and Left's player touched it last.
C30_Witness ==
    /\ last.op = "tick"
    /\ \E g \in DOMAIN lobbies :
          LET ball == lobbies[g].ball
          IN  /\ lobbies[g].state = "Active"
              /\ ball.last_touched_by = 4
              /\ lobbies[g].players[4].position = "Left"
              /\ ball.x = PADDLE_PADDING + BALL_RADIUS
              /\ ball.y = PADDLE_PADDING + BALL_RADIUS
              /\ ball.vx > 0


(***************************************************************************)
(* Properties of the mutexes                                               *)
(***************************************************************************)
\* C31: after every step, no task is waiting for the queue mutex while it
\* holds the GameRooms mutex; a task that takes the queue mutex in the
\* step did not hold the GameRooms mutex before, so a task that holds both
\* took the queue mutex first; and no two tasks, nor one task alone, wait
\* for a mutex the other holds: there is no deadlock.
C31_NoDeadlock ==
    [][\A t1 \in Tasks :
          /\ WaitsFor(server', t1) = "queue" => "rooms" \notin Holds(server', t1)
          /\ ("queue" \in Holds(server', t1) /\ "queue" \notin Holds(server, t1))
                => "rooms" \notin Holds(server, t1)
          /\ \A t2 \in Tasks :
                ~(/\ WaitsFor(server', t1) \in Holds(server', t2)
                  /\ WaitsFor(server', t2) \in Holds(server', t1))]_vars

\* The tick task is in process_input with both guards, the receiver holds
\* a datagram and waits for the queue mutex.
C31_Witness ==
    /\ Holds(server, "tick") = {"queue", "rooms"}
    /\ server.pc = "process_input"
    /\ WaitsFor(server, "receiver") = "queue"


(***************************************************************************)
(* Properties of play again                                                *)
(***************************************************************************)
\* C32: restart_game on a Finished game leaves the caller alone in the
\* game, WaitingForPlayers; from then on the game stays WaitingForPlayers
\* through every restart_game and every tick, no player leaves it or
\* changes, each further caller is added while there are fewer than 4 and
\* refused when there are 4, and no two players hold the same position.
C32_PlayAgainClearsOnce ==
    [][\A g \in DOMAIN lobbies \cap DOMAIN lobbies' :
          LET old == lobbies[g]
              new == lobbies'[g]
              called == last'.op = "restart_game" /\ last'.gid = g
          IN  /\ (called /\ old.state = "Finished") =>
                    /\ new.state = "WaitingForPlayers"
                    /\ last'.status = 200
                    /\ DOMAIN new.players = {last'.pid}
                    /\ last'.pid \notin DOMAIN old.players
              /\ old.state = "WaitingForPlayers" =>
                    /\ new.state = "WaitingForPlayers"
                    /\ \A p \in DOMAIN old.players :
                          /\ p \in DOMAIN new.players
                          /\ new.players[p] = old.players[p]
                    /\ (called /\ PlayerCount(old) < MAX_PLAYERS) =>
                          /\ last'.status = 200
                          /\ DOMAIN new.players = DOMAIN old.players \cup {last'.pid}
                          /\ last'.pid \notin DOMAIN old.players
                    /\ (called /\ PlayerCount(old) >= MAX_PLAYERS) =>
                          /\ last'.status # 200
                          /\ new = old
                    /\ ~called => new = old
              /\ \A p, q \in DOMAIN new.players :
                    p # q => new.players[p].position # new.players[q].position]_vars

\* Five clients have called restart_game on the finished game: the first
\* four are in it, on the four sides, and the fifth has been refused.
C32_Witness ==
    /\ last.op = "restart_game"
    /\ last.status # 200
    /\ \E g \in DOMAIN lobbies :
          /\ lobbies[g].state = "WaitingForPlayers"
          /\ DOMAIN lobbies[g].players = 1..MAX_PLAYERS
          /\ Held(lobbies[g].players) = Positions


(***************************************************************************)
(* Properties of the states of a game                                      *)
(***************************************************************************)
\* C33: after every step an Active game has at least 2 players; a step
\* that takes a player out of an Active game (Disconnect, a ping timeout,
\* remove_bot) and leaves fewer than 2 makes the game Finished in that
\* step, with finished_at the instant of the step.
C33_ActiveHasTwoPlayers ==
    [][\A g \in DOMAIN lobbies' :
          /\ lobbies'[g].state = "Active" => PlayerCount(lobbies'[g]) >= 2
          /\ (/\ g \in DOMAIN lobbies
              /\ lobbies[g].state = "Active"
              /\ DOMAIN lobbies'[g].players # DOMAIN lobbies[g].players
              /\ DOMAIN lobbies'[g].players \subseteq DOMAIN lobbies[g].players
              /\ PlayerCount(lobbies'[g]) < 2) =>
                    /\ lobbies'[g].state = "Finished"
                    /\ lobbies'[g].finished_at = now']_vars

\* remove_bot has taken the bot out of a game that one human and the bot
\* were playing: the game is Finished, the human alone in it.
C33_Witness ==
    /\ last.op = "remove_bot"
    /\ last.status = 200
    /\ last.gid \in DOMAIN lobbies
    /\ lobbies[last.gid].state = "Finished"
    /\ lobbies[last.gid].started_at # NoTime
    /\ lobbies[last.gid].finished_at = now
    /\ PlayerCount(lobbies[last.gid]) = 1


\* C34: a step that leaves a Finished game Finished leaves its finished_at
\* alone, so the instant the cleaner deletes it at is never put off.
C34_FinishedAtKept ==
    [][\A g \in DOMAIN lobbies \cap DOMAIN lobbies' :
          (lobbies[g].state = "Finished" /\ lobbies'[g].state = "Finished") =>
                lobbies'[g].finished_at = lobbies[g].finished_at]_vars

\* C35: add_bot and remove_bot on a game that is WaitingForPlayers leave
\* it WaitingForPlayers, with started_at and finished_at as they were.
C35_BotsKeepLobbyWaiting ==
    [][\A g \in DOMAIN lobbies :
          (/\ last'.op \in {"add_bot", "remove_bot"}
           /\ last'.gid = g
           /\ lobbies[g].state = "WaitingForPlayers") =>
                /\ g \in DOMAIN lobbies'
                /\ lobbies'[g].state = "WaitingForPlayers"
                /\ lobbies'[g].started_at = lobbies[g].started_at
                /\ lobbies'[g].finished_at = lobbies[g].finished_at]_vars


\* A lobby whose players, at least 2, are all ready.
ReadyToStart(game) == PlayerCount(game) >= 2 /\ AllReady(game)

\* C36 as stated: no game is WaitingForPlayers with at least 2 players who
\* are all ready, whichever step (a PlayerReady toggle, an add_bot, a
\* removal) has made them so.
C36_ReadyLobbyStarts ==
    \A g \in DOMAIN lobbies :
        lobbies[g].state = "WaitingForPlayers" => ~ReadyToStart(lobbies[g])

\* C36: the PlayerReady of a player of a lobby that leaves at least 2
\* players, all ready, makes the game Active in that step, started at the
\* instant of the step with the ball of Ball::new; no other step makes a
\* lobby Active.
C36_PlayerReadyStarts ==
    [][\A g \in DOMAIN lobbies \cap DOMAIN lobbies' :
          lobbies[g].state = "WaitingForPlayers" =>
            /\ (/\ last'.op = "PlayerReady"
                /\ last'.gid = g
                /\ last'.pid \in DOMAIN lobbies[g].players
                /\ ReadyToStart(lobbies'[g])) =>
                      /\ lobbies'[g].state = "Active"
                      /\ lobbies'[g].started_at = now'
                      /\ lobbies'[g].ball = BallNew
                      /\ last'.err = "Ok"
            /\ lobbies'[g].state = "Active" =>
                      /\ last'.op = "PlayerReady"
                      /\ last'.gid = g
                      /\ ReadyToStart(lobbies'[g])]_vars

\* A player's PlayerReady has started a game with a bot in it: add_bot
\* had left the lobby waiting.
C36_Witness ==
    /\ last.op = "PlayerReady"
    /\ last.err = "Ok"
    /\ last.gid \in DOMAIN lobbies
    /\ lobbies[last.gid].state = "Active"
    /\ lobbies[last.gid].started_at = now
    /\ ReadyToStart(lobbies[last.gid])
    /\ \E p \in DOMAIN lobbies[last.gid].players : lobbies[last.gid].players[p].is_ai


\* C37: no step takes a Paused game to Active or back to the lobby.  A
\* Paused game stays in GameRooms, Paused or Finished; it becomes Finished
\* only in a step that takes players out of it; PlayerReady leaves its
\* state and started_at alone; restart_game for it is answered 400 and
\* leaves it unchanged; ResumeGame changes no game, whatever its state.
C37_PausedNeverResumes ==
    [][/\ last'.op = "ResumeGame" => lobbies' = lobbies
       /\ \A g \in DOMAIN lobbies :
            lobbies[g].state = "Paused" =>
                /\ g \in DOMAIN lobbies'
                /\ lobbies'[g].state \in {"Paused", "Finished"}
                /\ lobbies'[g].started_at = lobbies[g].started_at
                /\ lobbies'[g].state = "Finished" =>
                      /\ DOMAIN lobbies'[g].players # DOMAIN lobbies[g].players
                      /\ DOMAIN lobbies'[g].players \subseteq DOMAIN lobbies[g].players
                      /\ last'.op \in {"Disconnect", "remove_bot", "tick"}
                /\ (last'.op = "PlayerReady" /\ last'.gid = g) =>
                      /\ lobbies'[g].state = "Paused"
                      /\ last'.err # "Ok"
                /\ (last'.op = "restart_game" /\ last'.gid = g) =>
                      /\ last'.status = 400
                      /\ lobbies'[g] = lobbies[g]]_vars

\* ResumeGame from a player of a Paused game has been processed: the game
\* is still Paused, its players, at least 2, all ready.
C37_Witness ==
    /\ last.op = "ResumeGame"
    /\ last.gid \in DOMAIN lobbies
    /\ last.pid \in DOMAIN lobbies[last.gid].players
    /\ lobbies[last.gid].state = "Paused"
    /\ ReadyToStart(lobbies[last.gid])


\* C38: a tick leaves every Finished game as it was: its ball, its
\* players with their scores, paddles and ping timestamps, its state and
\* its instants, however long ago the players' last pings were.
C38_TickSkipsFinished ==
    [][last'.op = "tick" =>
          \A g \in DOMAIN lobbies :
              lobbies[g].state = "Finished" =>
                  /\ g \in DOMAIN lobbies'
                  /\ lobbies'[g] = lobbies[g]]_vars

\* A tick has run over a Finished game that still holds a player whose
\* last ping is older than PING_TIMEOUT.
C38_Witness ==
    /\ last.op = "tick"
    /\ \E g \in DOMAIN lobbies :
          /\ lobbies[g].state = "Finished"
          /\ \E p \in DOMAIN lobbies[g].players :
                /\ lobbies[g].players[p].ping_timestamp # NoTime
                /\ now - lobbies[g].players[p].ping_timestamp > PING_TIMEOUT


(***************************************************************************)
(* The liveness of AI players                                              *)
(***************************************************************************)
\* The AI players of a game.
AIs(game) == {p \in DOMAIN game.players : game.players[p].is_ai}

\* C39 as stated: after every step every AI player has its ping_timestamp
\* unset, and a tick removes no AI player.
C39_BotNeverTimesOut ==
    [][/\ \A g \in DOMAIN lobbies' : \A p \in AIs(lobbies'[g]) :
             lobbies'[g].players[p].ping_timestamp = NoTime
       /\ last'.op = "tick" =>
             \A g \in DOMAIN lobbies : g \in DOMAIN lobbies' /\
                                       AIs(lobbies[g]) \subseteq AIs(lobbies'[g])]_vars

\* C39: an AI player enters a game with its ping_timestamp unset; the
\* timestamp changes only in the step that applies a JoinGame or a Ping
\* naming the AI player, which sets it to the instant of the step; a tick
\* keeps every AI player whose timestamp is unset and removes only AI
\* players whose timestamp is older than PING_TIMEOUT.
C39_BotPingOnlyFromDatagrams ==
    [][\A g \in DOMAIN lobbies' :
          /\ \A p \in AIs(lobbies'[g]) :
                IF g \in DOMAIN lobbies /\ p \in DOMAIN lobbies[g].players
                THEN lobbies'[g].players[p].ping_timestamp
                        # lobbies[g].players[p].ping_timestamp =>
                            /\ last'.op \in {"JoinGame", "Ping"}
                            /\ last'.err = "Ok"
                            /\ last'.gid = g
                            /\ last'.pid = p
                            /\ lobbies'[g].players[p].ping_timestamp = now'
                ELSE lobbies'[g].players[p].ping_timestamp = NoTime
          /\ (last'.op = "tick" /\ g \in DOMAIN lobbies) =>
                \A p \in AIs(lobbies[g]) :
                    IF lobbies[g].players[p].ping_timestamp = NoTime
                    THEN /\ p \in AIs(lobbies'[g])
                         /\ lobbies'[g].players[p].ping_timestamp = NoTime
                    ELSE p \notin DOMAIN lobbies'[g].players =>
                            now' - lobbies[g].players[p].ping_timestamp
                                > PING_TIMEOUT]_vars

\* A tick later than PING_TIMEOUT has checked the players of a game that
\* is not Finished: its AI player, the timestamp unset, is still in it.
C39_Witness ==
    /\ last.op = "tick"
    /\ now > PING_TIMEOUT
    /\ \E g \in DOMAIN lobbies :
          /\ lobbies[g].state # "Finished"
          /\ \E p \in AIs(lobbies[g]) : lobbies[g].players[p].ping_timestamp = NoTime


(***************************************************************************)
(* The queue of inputs                                                     *)
(***************************************************************************)
\* The sequence numbers of the inputs of a queue.
Seqs(queue) == {queue[i].seq : i \in DOMAIN queue}

\* The inputs the receiver has pushed and the tick task has not processed.
Enqueued(s) == Seqs(s.queue)

\* The inputs process_input has returned from, applied or dropped.
Processed(s) == Seqs(s.applied)

\* Each input the receiver has read is in one place, once: with the
\* receiver, in the queue, in process_input, or processed.
OncePlaced(s) ==
    /\ \A i, j \in DOMAIN s.queue : s.queue[i].seq = s.queue[j].seq => i = j
    /\ \A i, j \in DOMAIN s.applied : s.applied[i].seq = s.applied[j].seq => i = j
    /\ Enqueued(s) \cap Processed(s) = {}
    /\ s.current.seq \notin Enqueued(s) \cup Processed(s)
    /\ s.pending.seq \notin Enqueued(s) \cup Processed(s)
    /\ s.pending # NoInput => s.pending.seq # s.current.seq
    /\ Enqueued(s) \cup Processed(s) \cup ({s.current.seq, s.pending.seq} \ {0})
            = 1..s.received

\* C40: every input the receiver has pushed is in one place at a time and
\* processed at most once; the drain of a tick ends, and ends with the
\* queue empty; under fair scheduling every input in the queue is
\* eventually processed, and so is every input the receiver has read.
C40_EveryInputProcessedOnce ==
    /\ [](OncePlaced(server))
    /\ [](server.pc = "game_tick" => server.queue = <<>>)
    /\ (server.pc = "drain") ~> (server.pc = "game_tick")
    /\ \A n \in 1..MaxInputs : (n \in Enqueued(server)) ~> (n \in Processed(server))
    /\ \A n \in 1..MaxInputs : (server.pending.seq = n) ~> (n \in Processed(server))
    /\ \A n \in 1..MaxInputs : [](n \in Processed(server) => [](n \in Processed(server)))

\* The drain of a tick is over, the queue empty: it has processed every
\* input the receiver read, in the order they were pushed, two or more of
\* them in this drain or the ones before.
C40_Witness ==
    /\ server.pc = "game_tick"
    /\ server.queue = <<>>
    /\ server.received = MaxInputs
    /\ Processed(server) = 1..MaxInputs
    /\ Len(server.applied) = MaxInputs

=============================================================================
